---- MODULE Spec2Model ----
(***************************************************************************)
(* Connect 4: the board model (Connect4/game.py) and the search engine     *)
(* (bot.py).  The game is one record, mutated by make_move / undo_move;    *)
(* the engine's recursion is an explicit call stack operating on it.       *)
(***************************************************************************)
EXTENDS Integers, Sequences, FiniteSets, TLC

VARIABLES
    game,                 \* the Connect4 instance
    last,                 \* the last call made on the game or the engine
    bot,                  \* the Bot instance's configuration
    transposition_table,  \* Bot.transposition_table
    valid_moves_cache,    \* Bot.valid_moves_cache
    evaluation_cache,     \* Bot.evaluation_cache
    stack,                \* the engine's call stack, innermost call last
    retval                \* the value the last completed _minimax_with_hash returned

\* ------------------------------------------------------------------ bounds

\* How many moves the play may deviate from a scripted line.
MaxFree == 2

\* The largest search depth a Bot is configured with.
MaxDepth == 3

\* ------------------------------------------------------- program constants

NONE == 0
RED == 1
YELLOW == 2

ROWS == 6
COLS == 7
WIN_LENGTH == 4

\* Python's None, as returned by get_next_open_row.
None == -1

Rows == 0 .. (ROWS - 1)
Cols == 0 .. (COLS - 1)

\* ------------------------------------------------------------- Connect4

\* Connect4.__init__
NewGame ==
    [board |-> [r \in Rows |-> [c \in Cols |-> NONE]],
     current_player |-> RED,
     game_over |-> FALSE,
     winner |-> NONE,
     move_history |-> << >>]

\* Connect4.get_board: top row first, the cells' integer values.
get_board(g) == [r \in 1 .. ROWS |-> [c \in 1 .. COLS |-> g.board[r - 1][c - 1]]]

is_valid_move(g, col) ==
    IF col < 0 \/ col >= COLS THEN FALSE
    ELSE g.board[0][col] = NONE

\* The loop of get_next_open_row: rows ROWS-1 down to 0, the first empty one.
RECURSIVE ScanOpenRow(_, _, _)
ScanOpenRow(g, col, row) ==
    IF row < 0 THEN None
    ELSE IF g.board[row][col] = NONE THEN row
    ELSE ScanOpenRow(g, col, row - 1)

\* The top row returned: the piece does not fall.
get_next_open_row_top(g, col) == IF ~is_valid_move(g, col) THEN None ELSE 0

get_next_open_row(g, col) ==
    IF ~is_valid_move(g, col) THEN None
    ELSE ScanOpenRow(g, col, ROWS - 1)

\* One direction of _check_win's inner loops: i = from .. WIN_LENGTH-1, the
\* number of consecutive cells of player at (row + sr*i, col + sc*i).
RECURSIVE CountRun(_, _, _, _, _, _, _)
CountRun(board, player, row, col, sr, sc, i) ==
    IF i >= WIN_LENGTH THEN 0
    ELSE LET r == row + sr * i
             c == col + sc * i
         IN  IF 0 <= r /\ r < ROWS /\ 0 <= c /\ c < COLS /\ board[r][c] = player
             THEN 1 + CountRun(board, player, row, col, sr, sc, i + 1)
             ELSE 0

directions == << <<0, 1>>, <<1, 0>>, <<1, 1>>, <<1, -1>> >>

\* count > WIN_LENGTH in place of count >= WIN_LENGTH.
WinAtOffByOne(board, player, row, col) ==
    \E d \in 1 .. Len(directions) :
        1 + CountRun(board, player, row, col, directions[d][1], directions[d][2], 1)
          + CountRun(board, player, row, col, -directions[d][1], -directions[d][2], 1)
        > WIN_LENGTH

\* _check_win for the piece player at (row, col).
WinAt(board, player, row, col) ==
    \E d \in 1 .. Len(directions) :
        1 + CountRun(board, player, row, col, directions[d][1], directions[d][2], 1)
          + CountRun(board, player, row, col, -directions[d][1], -directions[d][2], 1)
        >= WIN_LENGTH

_check_win(g, row, col) == WinAt(g.board, g.board[row][col], row, col)

\* The bottom row tested in place of the top row.
BottomRowFull(g) == \A col \in Cols : g.board[ROWS - 1][col] # NONE

_is_board_full(g) == \A col \in Cols : g.board[0][col] # NONE

\* get_valid_moves: the valid columns in ascending order.
RECURSIVE ValidFrom(_, _)
ValidFrom(g, col) ==
    IF col >= COLS THEN << >>
    ELSE IF is_valid_move(g, col) THEN <<col>> \o ValidFrom(g, col + 1)
    ELSE ValidFrom(g, col + 1)

\* No column listed once the game is over.
get_valid_moves_while_playing(g) == IF g.game_over THEN << >> ELSE ValidFrom(g, 0)

get_valid_moves(g) == ValidFrom(g, 0)

Other(p) == IF p = RED THEN YELLOW ELSE RED

\* The players switched after every move, game-ending ones included.
SettleAlwaysSwitching(placed, row, col) ==
    IF _check_win(placed, row, col)
    THEN [placed EXCEPT !.game_over = TRUE, !.winner = placed.current_player,
                        !.current_player = Other(placed.current_player)]
    ELSE IF _is_board_full(placed)
    THEN [placed EXCEPT !.game_over = TRUE, !.winner = NONE,
                        !.current_player = Other(placed.current_player)]
    ELSE [placed EXCEPT !.current_player = Other(placed.current_player)]

\* The end of make_move, once the piece is on the board: win, draw or the
\* other player's turn.
Settle(placed, row, col) ==
    IF _check_win(placed, row, col)
    THEN [placed EXCEPT !.game_over = TRUE, !.winner = placed.current_player]
    ELSE IF _is_board_full(placed)
    THEN [placed EXCEPT !.game_over = TRUE, !.winner = NONE]
    ELSE [placed EXCEPT !.current_player = Other(placed.current_player)]

\* The log entry written as (col, row, mover).
PlaceAtSwappedLog(g, col, row) ==
    IF row = None THEN [game |-> g, ret |-> FALSE]
    ELSE [game |-> Settle([g EXCEPT !.board[row][col] = g.current_player,
                                    !.move_history =
                                        Append(@, <<col, row, g.current_player>>)],
                          row, col),
          ret |-> TRUE]

\* make_move from the call of get_next_open_row on.
PlaceAt(g, col, row) ==
    IF row = None THEN [game |-> g, ret |-> FALSE]
    ELSE [game |-> Settle([g EXCEPT !.board[row][col] = g.current_player,
                                    !.move_history =
                                        Append(@, <<row, col, g.current_player>>)],
                          row, col),
          ret |-> TRUE]

\* make_move without its game_over test.
make_move_after_end(g, col) ==
    IF ~is_valid_move(g, col) THEN [game |-> g, ret |-> FALSE]
    ELSE PlaceAt(g, col, get_next_open_row(g, col))

\* make_move: the game after the call and the value returned.
make_move(g, col) ==
    IF g.game_over THEN [game |-> g, ret |-> FALSE]
    ELSE IF ~is_valid_move(g, col) THEN [game |-> g, ret |-> FALSE]
    ELSE PlaceAt(g, col, get_next_open_row(g, col))

\* undo_move that leaves game_over and winner as they are.
undo_move_keeping_flags(g) ==
    IF g.move_history = << >> THEN [game |-> g, ret |-> FALSE]
    ELSE LET e == g.move_history[Len(g.move_history)]
         IN  [game |-> [g EXCEPT !.move_history = SubSeq(@, 1, Len(@) - 1),
                                 !.board[e[1]][e[2]] = NONE,
                                 !.current_player = e[3]],
              ret |-> TRUE]

\* undo_move that reports success on an empty log.
undo_move_always_true(g) ==
    IF g.move_history = << >> THEN [game |-> g, ret |-> TRUE]
    ELSE LET e == g.move_history[Len(g.move_history)]
         IN  [game |-> [g EXCEPT !.move_history = SubSeq(@, 1, Len(@) - 1),
                                 !.board[e[1]][e[2]] = NONE,
                                 !.game_over = FALSE,
                                 !.winner = NONE,
                                 !.current_player = e[3]],
              ret |-> TRUE]

\* undo_move that takes the oldest log entry (pop(0)) instead of the latest.
undo_move_oldest_entry(g) ==
    IF g.move_history = << >> THEN [game |-> g, ret |-> FALSE]
    ELSE LET e == g.move_history[1]
         IN  [game |-> [g EXCEPT !.move_history = Tail(@),
                                 !.board[e[1]][e[2]] = NONE,
                                 !.game_over = FALSE,
                                 !.winner = NONE,
                                 !.current_player = e[3]],
              ret |-> TRUE]

\* undo_move that does not give the turn back to the mover.
undo_move_keeping_player(g) ==
    IF g.move_history = << >> THEN [game |-> g, ret |-> FALSE]
    ELSE LET e == g.move_history[Len(g.move_history)]
         IN  [game |-> [g EXCEPT !.move_history = SubSeq(@, 1, Len(@) - 1),
                                 !.board[e[1]][e[2]] = NONE,
                                 !.game_over = FALSE,
                                 !.winner = NONE],
              ret |-> TRUE]

\* undo_move: the game after the call and the value returned.
undo_move(g) ==
    IF g.move_history = << >> THEN [game |-> g, ret |-> FALSE]
    ELSE LET e == g.move_history[Len(g.move_history)]
             row == e[1]
             col == e[2]
             player == e[3]
         IN  [game |-> [g EXCEPT !.move_history = SubSeq(@, 1, Len(@) - 1),
                                 !.board[row][col] = NONE,
                                 !.game_over = FALSE,
                                 !.winner = NONE,
                                 !.current_player = player],
              ret |-> TRUE]

\* The states a game passes through when the columns of cols are played from g:
\* element j + 1 is the state after the first j moves.
RECURSIVE Replay(_, _, _)
Replay(g, cols, i) ==
    IF i > Len(cols) THEN <<g>>
    ELSE <<g>> \o Replay(make_move(g, cols[i]).game, cols, i + 1)

\* ---------------------------------------------------- the play explored

\* A complete game that ends in a draw (the board full, no four in a row).
DrawLine ==
    <<4, 3, 6, 0, 1, 4, 5, 5, 1, 1, 5, 0, 1, 6, 0, 1, 5, 5, 1, 0, 4,
      6, 3, 2, 6, 6, 0, 4, 6, 5, 2, 0, 4, 2, 4, 2, 2, 2, 3, 3, 3, 3>>

\* RED builds three in the bottom row, YELLOW does not block, RED wins.
BlockLine == <<0, 6, 1, 6, 2, 5, 3>>

\* RED threatens column 3 only; YELLOW to move.
ThreatLine == <<5, 1, 4, 0, 2, 4, 2>>

\* RED to move wins in column 2, the second column of the center-out order.
WinLine == <<3, 6, 4, 6, 5, 6>>

\* PlayerA plays 0, 1, 2 and PlayerB plays 0, 1.
ScenarioLine == <<0, 0, 1, 1, 2>>

\* A complete game that YELLOW wins with the move that fills the board.
FullWinLine ==
    <<0, 3, 0, 6, 1, 3, 0, 5, 4, 1, 1, 1, 1, 2, 4, 3, 5, 2, 3, 3, 1,
      4, 2, 4, 3, 0, 0, 2, 0, 2, 6, 5, 5, 4, 6, 6, 4, 6, 5, 5, 6, 2>>

Lines == {DrawLine, FullWinLine, BlockLine, ThreatLine, WinLine, ScenarioLine}

HistoryCols(g) == [i \in 1 .. Len(g.move_history) |-> g.move_history[i][2]]

Min(a, b) == IF a < b THEN a ELSE b

\* cols follows a scripted line for its first k moves and has at most free more.
InScope(cols, free) ==
    \E line \in Lines :
        \E k \in 0 .. Min(Len(line), Len(cols)) :
            /\ Len(cols) - k <= free
            /\ \A i \in 1 .. k : cols[i] = line[i]

\* The columns a caller may pass: every column, and one out of range each side.
ArgCols == -1 .. COLS

\* ------------------------------------------------------------ Bot: hashing

\* A Python integer is the set of the positions of its 1 bits.
Xor(a, b) == (a \ b) \cup (b \ a)

\* key * n for n in 0 .. 2 (n is a Player value).
Times(key, n) ==
    IF n = 0 THEN {}
    ELSE IF n = 1 THEN key
    ELSE {i + 1 : i \in key}

HASH_BITS == 64

\* random.getrandbits(64): the n-th draw of a generator seeded with seed.
RandBit(seed, n, i) ==
    LET x == (((n * HASH_BITS + i + 1) * 7919) + seed * 10007) % 46337
        y == (x * x) % 46337
        z == (((y + 3 * i + n) % 46337) * ((y + 5) % 46337)) % 46337
    IN  (z \div 16) % 2 = 1

getrandbits(seed, n) == {i \in 0 .. (HASH_BITS - 1) : RandBit(seed, n, i)}

Seeds == {11}

\* _init_zobrist_table, for each seed: the draws in the order the loops make them.
ZobristTables ==
    [seed \in Seeds |->
        [row \in Rows |-> [col \in Cols |-> [idx \in 0 .. 2 |->
            getrandbits(seed, (row * COLS + col) * 3 + idx)]]]]

\* The draw that follows the table's: Bot.player_key.
PlayerKeys == [seed \in Seeds |-> getrandbits(seed, ROWS * COLS * 3)]

zobrist_table(b) == ZobristTables[b.seed]
player_key(b) == PlayerKeys[b.seed]

\* Bot.__init__ with a recognised search_type.
NewBot(depth, player, search_type, seed) ==
    [depth |-> depth,
     player |-> player,
     opponent |-> IF player = YELLOW THEN RED ELSE YELLOW,
     search_type |-> search_type,
     seed |-> seed]

\* The cell loop of _compute_hash, cells in row-major order from cell n on.
RECURSIVE HashCells(_, _, _)
HashCells(b, g, n) ==
    IF n >= ROWS * COLS THEN {}
    ELSE LET row == n \div COLS
             col == n % COLS
         IN  Xor(zobrist_table(b)[row][col][g.board[row][col]],
                 HashCells(b, g, n + 1))

_compute_hash(b, g) ==
    Xor(HashCells(b, g, 0), Times(player_key(b), g.current_player))

_update_hash(b, hash_value, row, col, old_player, new_player) ==
    Xor(Xor(hash_value, zobrist_table(b)[row][col][old_player]),
        zobrist_table(b)[row][col][new_player])

\* The old side to move removed and the new one never added.
_update_hash_old_side_only(b, hash_value, row, col, old_player, new_player, old_current_player, new_current_player) ==
    Xor(_update_hash(b, hash_value, row, col, old_player, new_player),
        Times(player_key(b), old_current_player))

\* The side to move updated and the piece left out.
_update_hash_side_only(b, hash_value, row, col, old_player, new_player, old_current_player, new_current_player) ==
    Xor(Xor(hash_value, Times(player_key(b), old_current_player)),
        Times(player_key(b), new_current_player))

\* The piece updated and the side to move left out.
_update_hash_piece_only(b, hash_value, row, col, old_player, new_player, old_current_player, new_current_player) ==
    _update_hash(b, hash_value, row, col, old_player, new_player)

_update_hash_for_move(b, hash_value, row, col, old_player, new_player, old_current_player, new_current_player) ==
    Xor(Xor(_update_hash(b, hash_value, row, col, old_player, new_player),
            Times(player_key(b), old_current_player)),
        Times(player_key(b), new_current_player))

\* ------------------------------------------------- Bot: tables and ordering

EXACT == "EXACT"
LOWER_BOUND == "LOWER_BOUND"
UPPER_BOUND == "UPPER_BOUND"

TranspositionEntry(score, depth, bound, best_move) ==
    [score |-> score, depth |-> depth, bound |-> bound, best_move |-> best_move]

\* The assignment lost.
PutNothing(d, k, v) == d

\* d[k] = v on a dict.
Put(d, k, v) == [x \in (DOMAIN d) \cup {k} |-> IF x = k THEN v ELSE d[x]]

EmptyDict == [x \in {} |-> None]

center_order == <<3, 2, 4, 1, 5, 0, 6>>

\* The column itself as the key: the moves sorted left to right.
CenterKeyLeftToRight(m) == m

\* center_order.index(m) if m in center_order else 999
CenterKey(m) ==
    IF \E i \in 1 .. Len(center_order) : center_order[i] = m
    THEN (CHOOSE i \in 1 .. Len(center_order) : center_order[i] = m) - 1
    ELSE 999

\* list.sort(key=CenterKey): a stable sort, by insertion.
RECURSIVE InsertByKey(_, _)
InsertByKey(sorted, m) ==
    IF sorted = << >> THEN <<m>>
    ELSE LET lastm == sorted[Len(sorted)]
         IN  IF CenterKey(lastm) <= CenterKey(m) THEN Append(sorted, m)
             ELSE Append(InsertByKey(SubSeq(sorted, 1, Len(sorted) - 1), m), lastm)

RECURSIVE SortByKey(_, _)
SortByKey(moves, n) ==
    IF n = 0 THEN << >> ELSE InsertByKey(SortByKey(moves, n - 1), moves[n])

InList(m, moves) == \E i \in 1 .. Len(moves) : moves[i] = m

\* The best move put first and not taken out of the rest.
_order_moves_unfiltered(valid_moves, position_hash, tt) ==
    LET best_move ==
            IF position_hash \in DOMAIN tt
               /\ tt[position_hash].best_move # None
               /\ InList(tt[position_hash].best_move, valid_moves)
            THEN tt[position_hash].best_move
            ELSE None
        sorted == SortByKey(valid_moves, Len(valid_moves))
    IN  IF best_move # None THEN <<best_move>> \o sorted ELSE sorted

_order_moves(valid_moves, position_hash, tt) ==
    LET best_move ==
            IF position_hash \in DOMAIN tt
               /\ tt[position_hash].best_move # None
               /\ InList(tt[position_hash].best_move, valid_moves)
            THEN tt[position_hash].best_move
            ELSE None
        remaining_moves == SelectSeq(valid_moves, LAMBDA m : m # best_move)
        sorted == SortByKey(remaining_moves, Len(remaining_moves))
    IN  IF best_move # None THEN <<best_move>> \o sorted ELSE sorted

\* --------------------------------------------------------- Bot: evaluation

RECURSIVE Pow10(_)
Pow10(k) == IF k = 0 THEN 1 ELSE 10 * Pow10(k - 1)

\* The cells _evaluate_line reads: i in range(WIN_LENGTH) from (row, col).
LineCells(row, col, dr, dc) ==
    [i \in 1 .. WIN_LENGTH |-> <<row + dr * (i - 1), col + dc * (i - 1)>>]

\* The fourth if statement left out: no diagonal running down to the left.
CellLinesThreeAxes(row, col) ==
       (IF col <= COLS - WIN_LENGTH
        THEN <<LineCells(row, col, 0, 1)>> ELSE << >>)
    \o (IF row <= ROWS - WIN_LENGTH
        THEN <<LineCells(row, col, 1, 0)>> ELSE << >>)
    \o (IF row <= ROWS - WIN_LENGTH /\ col <= COLS - WIN_LENGTH
        THEN <<LineCells(row, col, 1, 1)>> ELSE << >>)

\* The lines _evaluate_position's loops pass to _evaluate_line for one (row, col),
\* in the order of its four if statements.
CellLines(row, col) ==
       (IF col <= COLS - WIN_LENGTH
        THEN <<LineCells(row, col, 0, 1)>> ELSE << >>)
    \o (IF row <= ROWS - WIN_LENGTH
        THEN <<LineCells(row, col, 1, 0)>> ELSE << >>)
    \o (IF row <= ROWS - WIN_LENGTH /\ col <= COLS - WIN_LENGTH
        THEN <<LineCells(row, col, 1, 1)>> ELSE << >>)
    \o (IF row <= ROWS - WIN_LENGTH /\ col >= WIN_LENGTH - 1
        THEN <<LineCells(row, col, 1, -1)>> ELSE << >>)

\* All of them, for row in range(ROWS), col in range(COLS).
RECURSIVE LinesFrom(_)
LinesFrom(n) ==
    IF n >= ROWS * COLS THEN << >>
    ELSE CellLines(n \div COLS, n % COLS) \o LinesFrom(n + 1)

EvaluatedLines == LinesFrom(0)

\* How many cells of the line hold p.
LineCount(board, p, cells) ==
    Cardinality({i \in 1 .. Len(cells) : board[cells[i][1]][cells[i][2]] = p})

\* The score of a line from its two counts.
LineScore(bot_count, opponent_count) ==
    IF bot_count > 0 /\ opponent_count = 0 THEN Pow10(bot_count)
    ELSE IF opponent_count > 0 /\ bot_count = 0 THEN -Pow10(opponent_count)
    ELSE 0

_evaluate_line(b, board, cells) ==
    LineScore(LineCount(board, b.player, cells), LineCount(board, b.opponent, cells))

RECURSIVE EvaluateFrom(_, _, _)
EvaluateFrom(b, board, n) ==
    IF n > Len(EvaluatedLines) THEN 0
    ELSE _evaluate_line(b, board, EvaluatedLines[n]) + EvaluateFrom(b, board, n + 1)

_evaluate_position(b, g) == EvaluateFrom(b, g.board, 1)

\* ------------------------------------------------------------- Bot: search

\* float('-inf') and float('inf'): below and above every score.
NegInf == -1000000
PosInf == 1000000

\* x + 1 and x - 1 on floats: an infinity stays what it is.
Add1(x) == IF x = NegInf \/ x = PosInf THEN x ELSE x + 1
Sub1(x) == IF x = NegInf \/ x = PosInf THEN x ELSE x - 1

Max(a, b) == IF a > b THEN a ELSE b

\* One activation of get_best_move's helper (fn = "iterative" or "fixed") or of
\* _minimax_with_hash (fn = "minimax"): its arguments and locals, and where it
\* stands (pc).  entry is the game as it was when the activation began.
Frame(fn, depth, maximizing, alpha, beta, position_hash, entry) ==
    [fn |-> fn,
     pc |-> IF fn = "minimax" THEN "enter" ELSE "loop",
     depth |-> depth,
     maximizing |-> maximizing,
     alpha |-> alpha,
     beta |-> beta,
     position_hash |-> position_hash,
     valid_moves |-> << >>,
     ordered_moves |-> << >>,
     idx |-> 1,
     best_move |-> None,
     best_value |-> NegInf,
     current_best_move |-> None,
     original_alpha |-> alpha,
     first_move |-> TRUE,
     probing |-> FALSE,
     row |-> None,
     move |-> None,
     new_hash |-> {},
     entry |-> entry]

Top == stack[Len(stack)]
Pop == SubSeq(stack, 1, Len(stack) - 1)
SetTop(f) == [stack EXCEPT ![Len(stack)] = f]

Idle == stack = << >>

\* The check without its test of the entry's depth.
TTCheckAnyDepth(f, tt) ==
    LET h == f.position_hash
        miss == [hit |-> FALSE, score |-> 0, alpha |-> f.alpha, beta |-> f.beta]
    IN  IF h \in DOMAIN tt
        THEN LET entry == tt[h]
                 cut == [hit |-> TRUE, score |-> entry.score,
                         alpha |-> f.alpha, beta |-> f.beta]
             IN  IF entry.bound = EXACT THEN cut
                 ELSE IF entry.bound = LOWER_BOUND
                 THEN IF entry.score >= f.beta THEN cut
                      ELSE [miss EXCEPT !.alpha = Max(f.alpha, entry.score)]
                 ELSE IF entry.bound = UPPER_BOUND
                 THEN IF entry.score <= f.alpha THEN cut
                      ELSE [miss EXCEPT !.beta = Min(f.beta, entry.score)]
                 ELSE miss
        ELSE miss

\* The transposition-table check at the head of _minimax_with_hash.
TTCheck(f, tt) ==
    LET h == f.position_hash
        miss == [hit |-> FALSE, score |-> 0, alpha |-> f.alpha, beta |-> f.beta]
    IN  IF h \in DOMAIN tt /\ tt[h].depth >= f.depth
        THEN LET entry == tt[h]
                 cut == [hit |-> TRUE, score |-> entry.score,
                         alpha |-> f.alpha, beta |-> f.beta]
             IN  IF entry.bound = EXACT THEN cut
                 ELSE IF entry.bound = LOWER_BOUND
                 THEN IF entry.score >= f.beta THEN cut
                      ELSE [miss EXCEPT !.alpha = Max(f.alpha, entry.score)]
                 ELSE IF entry.bound = UPPER_BOUND
                 THEN IF entry.score <= f.alpha THEN cut
                      ELSE [miss EXCEPT !.beta = Min(f.beta, entry.score)]
                 ELSE miss
        ELSE miss

\* The remaining depth left out of the score.
TerminalScoreNoDepth(b, g, depth) ==
    IF g.winner = b.player THEN 1000
    ELSE IF g.winner = b.opponent THEN -1000
    ELSE 0

\* The score of a finished game at remaining depth depth.
TerminalScore(b, g, depth) ==
    IF g.winner = b.player THEN 1000 + depth
    ELSE IF g.winner = b.opponent THEN -1000 - depth
    ELSE 0

\* The bound an internal node's result is stored with.
MaxBound(max_eval, original_alpha, beta) ==
    IF max_eval <= original_alpha THEN UPPER_BOUND
    ELSE IF max_eval >= beta THEN LOWER_BOUND
    ELSE EXACT

\* In the minimizing branch beta is by then the local that holds min_eval.
MinBound(min_eval, original_alpha, beta) ==
    IF min_eval <= original_alpha THEN UPPER_BOUND
    ELSE IF min_eval >= beta THEN LOWER_BOUND
    ELSE EXACT

\* return score from the innermost _minimax_with_hash.
Return(score) ==
    /\ stack' = Pop
    /\ retval' = score

\* The test left out.
EarlyWinNever(made, player) == FALSE

\* The early win (loss) test after make_move: the move just made ended the game
\* and player is its winner.
EarlyWin(made, player) == made.game_over /\ made.winner = player

\* get_best_move without its three clear() calls.
StartSearchKeepingStores(valid_moves, position_hash) ==
    /\ transposition_table' = transposition_table
    /\ valid_moves_cache' = valid_moves_cache
    /\ evaluation_cache' = evaluation_cache
    /\ stack' =
         IF bot.search_type = "iterative" /\ bot.depth < 1
         THEN << >>
         ELSE <<[Frame(bot.search_type,
                       IF bot.search_type = "iterative" THEN 1 ELSE bot.depth,
                       TRUE, NegInf, PosInf, position_hash, game)
                 EXCEPT !.valid_moves = valid_moves,
                        !.ordered_moves =
                            _order_moves(valid_moves, position_hash,
                                         transposition_table)]>>

\* get_best_move past its two early returns: the caches cleared, the helper
\* entered and its first list of ordered moves made.
StartSearch(valid_moves, position_hash) ==
    /\ transposition_table' = EmptyDict
    /\ valid_moves_cache' = EmptyDict
    /\ evaluation_cache' = EmptyDict
    /\ stack' =
         IF bot.search_type = "iterative" /\ bot.depth < 1
         THEN << >>
         ELSE <<[Frame(bot.search_type,
                       IF bot.search_type = "iterative" THEN 1 ELSE bot.depth,
                       TRUE, NegInf, PosInf, position_hash, game)
                 EXCEPT !.valid_moves = valid_moves,
                        !.ordered_moves =
                            _order_moves(valid_moves, position_hash, EmptyDict)]>>

\* get_best_move, up to the first iteration of the helper's loop.
GetBestMove ==
    /\ Idle
    /\ UNCHANGED <<bot, game, retval>>
    /\ last' = [op |-> "get_best_move", arg |-> None, ret |-> None, pre |-> game]
    /\ IF game.game_over \/ get_valid_moves(game) = << >>
       THEN UNCHANGED <<transposition_table, valid_moves_cache,
                        evaluation_cache, stack>>
       ELSE StartSearch(get_valid_moves(game), _compute_hash(bot, game))

\* The helper returns move to get_best_move's caller.
Answer(move) ==
    /\ stack' = << >>
    /\ last' = [last EXCEPT !.ret = move]

\* The answer given after the first pass.
RootPassEndOnePass(f, best_move) == Answer(best_move)

\* The next pass started at the depth of the pass just ended.
RootPassEndSameDepth(f, best_move) ==
    IF f.fn = "fixed" \/ f.depth + 1 > bot.depth THEN Answer(best_move)
    ELSE /\ last' = last
         /\ stack' = SetTop(
              [f EXCEPT !.best_move = best_move,
                        !.best_value = NegInf,
                        !.current_best_move = None,
                        !.ordered_moves =
                            _order_moves(f.valid_moves, f.position_hash,
                                         transposition_table),
                        !.idx = 1])

\* The end of the helper's for loop: the answer, or the next deeper pass.
RootPassEnd(f, best_move) ==
    IF f.fn = "fixed" \/ f.depth + 1 > bot.depth THEN Answer(best_move)
    ELSE /\ last' = last
         /\ stack' = SetTop(
              [f EXCEPT !.best_move = best_move,
                        !.depth = f.depth + 1,
                        !.best_value = NegInf,
                        !.current_best_move = None,
                        !.ordered_moves =
                            _order_moves(f.valid_moves, f.position_hash,
                                         transposition_table),
                        !.idx = 1])

\* A root candidate after make_move: the immediate win, or the call of
\* _minimax_with_hash on the position reached.
RootTried(f, move, row, made, new_hash) ==
    IF EarlyWin(made, bot.player)
    THEN /\ game' = undo_move(made).game
         /\ Answer(move)
    ELSE /\ game' = made
         /\ last' = last
         /\ stack' = Append(SetTop([f EXCEPT !.pc = "after",
                                             !.row = row,
                                             !.move = move,
                                             !.new_hash = new_hash]),
                            Frame("minimax", f.depth - 1, FALSE, NegInf, PosInf,
                                  new_hash, made))

\* A root candidate: get_next_open_row, then make_move.
RootTry(f, move, row) ==
    IF row = None
    THEN /\ stack' = SetTop([f EXCEPT !.idx = f.idx + 1])
         /\ UNCHANGED <<game, last>>
    ELSE RootTried(f, move, row, make_move(game, move).game,
                   _update_hash_for_move(bot, f.position_hash, row, move,
                                         NONE, bot.player,
                                         bot.player, bot.opponent))

\* One iteration of the for loop of _get_best_move_iterative / _get_best_move_fixed
\* up to the call of _minimax_with_hash, or the end of the loop.
RootLoop ==
    /\ ~Idle
    /\ Top.fn # "minimax"
    /\ Top.pc = "loop"
    /\ UNCHANGED <<bot, transposition_table, valid_moves_cache, evaluation_cache,
                   retval>>
    /\ IF Top.idx > Len(Top.ordered_moves)
       THEN /\ game' = game
            /\ RootPassEnd(Top, IF Top.fn = "iterative" /\ Top.current_best_move # None
                                THEN Top.current_best_move ELSE Top.best_move)
       ELSE RootTry(Top, Top.ordered_moves[Top.idx],
                    get_next_open_row(game, Top.ordered_moves[Top.idx]))

\* The comparison turned round: nothing is below the initial best_value.
RecordBestLess(f, value) ==
    IF value < f.best_value
    THEN IF f.fn = "fixed"
         THEN [f EXCEPT !.best_value = value, !.best_move = f.move]
         ELSE [f EXCEPT !.best_value = value, !.current_best_move = f.move]
    ELSE f

\* The loop index recorded in place of the move.
RecordBestIndex(f, value) ==
    IF value > f.best_value
    THEN IF f.fn = "fixed"
         THEN [f EXCEPT !.best_value = value, !.best_move = f.idx]
         ELSE [f EXCEPT !.best_value = value, !.current_best_move = f.idx]
    ELSE f

\* value >= best_value: of the candidates of equal value the last one is kept.
RecordBestLatest(f, value) ==
    IF value >= f.best_value
    THEN IF f.fn = "fixed"
         THEN [f EXCEPT !.best_value = value, !.best_move = f.move]
         ELSE [f EXCEPT !.best_value = value, !.current_best_move = f.move]
    ELSE f

\* if value > best_value: the candidate becomes the best so far.
RecordBest(f, value) ==
    IF value > f.best_value
    THEN IF f.fn = "fixed"
         THEN [f EXCEPT !.best_value = value, !.best_move = f.move]
         ELSE [f EXCEPT !.best_value = value, !.current_best_move = f.move]
    ELSE f

\* The rest of the iteration, once _minimax_with_hash has returned.
RootAfter ==
    /\ ~Idle
    /\ Top.fn # "minimax"
    /\ Top.pc = "after"
    /\ UNCHANGED <<bot, transposition_table, valid_moves_cache, evaluation_cache,
                   retval, last>>
    /\ game' = undo_move(game).game
    /\ stack' = SetTop([RecordBest(Top, retval) EXCEPT !.pc = "loop",
                                                       !.idx = Top.idx + 1])

\* A node decided without recursion returns score, stored as an EXACT entry.
StoreExact(f, score, best_move) ==
    /\ transposition_table' =
           Put(transposition_table, f.position_hash,
               TranspositionEntry(score, f.depth, EXACT, best_move))
    /\ Return(score)

\* if depth == 0, the score taken from the evaluation cache or computed.
Leaf(f, score) ==
    /\ evaluation_cache' =
           IF f.position_hash \in DOMAIN evaluation_cache THEN evaluation_cache
           ELSE Put(evaluation_cache, f.position_hash, score)
    /\ valid_moves_cache' = valid_moves_cache
    /\ StoreExact(f, score, None)

\* The node has its ordered moves: no move at all, or the loop begins.
Ordered(f, chk, valid_moves, ordered_moves) ==
    IF ordered_moves = << >>
    THEN StoreExact(f, 0, None)
    ELSE /\ transposition_table' = transposition_table
         /\ retval' = retval
         /\ stack' = SetTop([f EXCEPT !.pc = "loop",
                                      !.alpha = chk.alpha,
                                      !.beta = chk.beta,
                                      !.valid_moves = valid_moves,
                                      !.ordered_moves = ordered_moves,
                                      !.idx = 1,
                                      !.best_move = None,
                                      !.original_alpha = chk.alpha,
                                      !.first_move = TRUE])

\* The valid moves, cached or computed, and their ordering.
Expand(f, chk, valid_moves) ==
    /\ valid_moves_cache' =
           IF f.position_hash \in DOMAIN valid_moves_cache THEN valid_moves_cache
           ELSE Put(valid_moves_cache, f.position_hash, valid_moves)
    /\ evaluation_cache' = evaluation_cache
    /\ Ordered(f, chk, valid_moves,
               _order_moves(valid_moves, f.position_hash, transposition_table))

\* _minimax_with_hash after the transposition-table check chk.
Enter(f, chk) ==
    IF chk.hit
    THEN /\ Return(chk.score)
         /\ UNCHANGED <<transposition_table, valid_moves_cache, evaluation_cache>>
    ELSE IF game.game_over
    THEN /\ StoreExact(f, TerminalScore(bot, game, f.depth), None)
         /\ UNCHANGED <<valid_moves_cache, evaluation_cache>>
    ELSE IF f.depth = 0
    THEN Leaf(f, IF f.position_hash \in DOMAIN evaluation_cache
                 THEN evaluation_cache[f.position_hash]
                 ELSE _evaluate_position(bot, game))
    ELSE Expand(f, chk, IF f.position_hash \in DOMAIN valid_moves_cache
                        THEN valid_moves_cache[f.position_hash]
                        ELSE get_valid_moves(game))

\* _minimax_with_hash from its head to the first iteration of its loop: the
\* transposition-table check, the terminal and depth-0 cases, the move list.
MinimaxEnter ==
    /\ ~Idle
    /\ Top.fn = "minimax"
    /\ Top.pc = "enter"
    /\ UNCHANGED <<bot, game, last>>
    /\ Enter(Top, TTCheck(Top, transposition_table))

\* The loop is over: the result is classified, stored and returned.
Finish(f, eval, bound) ==
    /\ transposition_table' =
           Put(transposition_table, f.position_hash,
               TranspositionEntry(eval, f.depth, bound, f.best_move))
    /\ Return(eval)
    /\ game' = game

\* The recursive call made with the caller's own remaining depth.
DescendSameDepth(f, move, row, made, new_hash, lo, hi) ==
    /\ game' = made
    /\ transposition_table' = transposition_table
    /\ retval' = retval
    /\ stack' = Append(SetTop([f EXCEPT !.pc = "after",
                                        !.row = row,
                                        !.move = move,
                                        !.new_hash = new_hash,
                                        !.probing = ~f.first_move,
                                        !.first_move = FALSE]),
                       Frame("minimax", f.depth, ~f.maximizing, lo, hi,
                             new_hash, made))

\* The recursive call on the position reached by move, with window (lo, hi).
Descend(f, move, row, made, new_hash, lo, hi) ==
    /\ game' = made
    /\ transposition_table' = transposition_table
    /\ retval' = retval
    /\ stack' = Append(SetTop([f EXCEPT !.pc = "after",
                                        !.row = row,
                                        !.move = move,
                                        !.new_hash = new_hash,
                                        !.probing = ~f.first_move,
                                        !.first_move = FALSE]),
                       Frame("minimax", f.depth - 1, ~f.maximizing, lo, hi,
                             new_hash, made))

\* A move of a maximizing node after make_move: the early win, or the search of
\* the child, the first with the full window and the others with a null window.
MaxTried(f, move, row, made) ==
    IF EarlyWin(made, bot.player)
    THEN /\ game' = undo_move(made).game
         /\ StoreExact(f, 1000 + f.depth, move)
    ELSE Descend(f, move, row, made,
                 _update_hash_for_move(bot, f.position_hash, row, move,
                                       NONE, bot.player, bot.player, bot.opponent),
                 f.alpha,
                 IF f.first_move THEN f.beta ELSE Add1(f.alpha))

\* The early loss returned without undo_move.
MinTriedNoUndo(f, move, row, made) ==
    IF EarlyWin(made, bot.opponent)
    THEN /\ game' = made
         /\ StoreExact(f, -1000 - f.depth, move)
    ELSE Descend(f, move, row, made,
                 _update_hash_for_move(bot, f.position_hash, row, move,
                                       NONE, bot.opponent, bot.opponent, bot.player),
                 IF f.first_move THEN f.alpha ELSE Sub1(f.beta),
                 f.beta)

\* The early loss scored as a win of the searching side.
MinTriedLossAsWin(f, move, row, made) ==
    IF EarlyWin(made, bot.opponent)
    THEN /\ game' = undo_move(made).game
         /\ StoreExact(f, 1000 + f.depth, move)
    ELSE Descend(f, move, row, made,
                 _update_hash_for_move(bot, f.position_hash, row, move,
                                       NONE, bot.opponent, bot.opponent, bot.player),
                 IF f.first_move THEN f.alpha ELSE Sub1(f.beta),
                 f.beta)

\* The same of a minimizing node: the early loss, or the search of the child.
MinTried(f, move, row, made) ==
    IF EarlyWin(made, bot.opponent)
    THEN /\ game' = undo_move(made).game
         /\ StoreExact(f, -1000 - f.depth, move)
    ELSE Descend(f, move, row, made,
                 _update_hash_for_move(bot, f.position_hash, row, move,
                                       NONE, bot.opponent, bot.opponent, bot.player),
                 IF f.first_move THEN f.alpha ELSE Sub1(f.beta),
                 f.beta)

\* A move of the loop: get_next_open_row, continue if there is none, make_move.
Try(f, move, row) ==
    IF row = None
    THEN /\ stack' = SetTop([f EXCEPT !.idx = f.idx + 1])
         /\ UNCHANGED <<game, transposition_table, retval>>
    ELSE IF f.maximizing
    THEN MaxTried(f, move, row, make_move(game, move).game)
    ELSE MinTried(f, move, row, make_move(game, move).game)

\* One iteration of the loop over ordered_moves, up to the recursive call; or,
\* the loop over, the classification and storing of the node's result.
MinimaxLoop ==
    /\ ~Idle
    /\ Top.fn = "minimax"
    /\ Top.pc = "loop"
    /\ UNCHANGED <<bot, last, valid_moves_cache, evaluation_cache>>
    /\ IF Top.idx > Len(Top.ordered_moves)
       THEN IF Top.maximizing
            THEN Finish(Top, Top.alpha,
                        MaxBound(Top.alpha, Top.original_alpha, Top.beta))
            ELSE Finish(Top, Top.beta,
                        MinBound(Top.beta, Top.original_alpha, Top.beta))
       ELSE Try(Top, Top.ordered_moves[Top.idx],
                get_next_open_row(game, Top.ordered_moves[Top.idx]))

\* The child's score is final: undo_move, the window and best move updated,
\* and break when beta <= alpha (no move is then left to try).
Absorb(f, alpha, beta, best_move) ==
    /\ game' = undo_move(game).game
    /\ stack' = SetTop([f EXCEPT !.pc = "loop",
                                 !.alpha = alpha,
                                 !.beta = beta,
                                 !.best_move = best_move,
                                 !.probing = FALSE,
                                 !.idx = IF beta <= alpha
                                         THEN Len(f.ordered_moves) + 1
                                         ELSE f.idx + 1])

\* The rest of the iteration once the recursive call has returned eval_score:
\* the full-window search again after a null-window probe that landed inside
\* the window, or the child's score absorbed.
Returned(f, eval_score) ==
    IF f.probing /\ eval_score > f.alpha /\ eval_score < f.beta
    THEN /\ game' = game
         /\ stack' = Append(SetTop([f EXCEPT !.probing = FALSE]),
                            Frame("minimax", f.depth - 1, ~f.maximizing,
                                  f.alpha, f.beta, f.new_hash, game))
    ELSE IF f.maximizing
    THEN IF eval_score > f.alpha
         THEN Absorb(f, eval_score, f.beta, f.move)
         ELSE Absorb(f, f.alpha, f.beta, f.best_move)
    ELSE IF eval_score < f.beta
         THEN Absorb(f, f.alpha, eval_score, f.move)
         ELSE Absorb(f, f.alpha, f.beta, f.best_move)

MinimaxAfter ==
    /\ ~Idle
    /\ Top.fn = "minimax"
    /\ Top.pc = "after"
    /\ UNCHANGED <<bot, last, valid_moves_cache, evaluation_cache,
                   transposition_table, retval>>
    /\ Returned(Top, retval)

\* ----------------------------------------------------------------- actions

\* The engine the web application constructs (app.py).
AppBot == NewBot(6, YELLOW, "iterative", CHOOSE s \in Seeds : TRUE)

Init ==
    /\ game = NewGame
    /\ last = [op |-> "new", arg |-> None, ret |-> TRUE, pre |-> NewGame]
    /\ bot = AppBot
    /\ transposition_table = EmptyDict
    /\ valid_moves_cache = EmptyDict
    /\ evaluation_cache = EmptyDict
    /\ stack = << >>
    /\ retval = 0

botvars == <<bot, transposition_table, valid_moves_cache, evaluation_cache,
             stack, retval>>

MakeMove(col) ==
    LET r == make_move(game, col)
    IN  /\ r.ret => InScope(HistoryCols(r.game), MaxFree)
        /\ game' = r.game
        /\ last' = [op |-> "make_move", arg |-> col, ret |-> r.ret, pre |-> game]
        /\ UNCHANGED botvars

UndoMove ==
    LET r == undo_move(game)
    IN  /\ game' = r.game
        /\ last' = [op |-> "undo_move", arg |-> None, ret |-> r.ret, pre |-> game]
        /\ UNCHANGED botvars

Next ==
    \/ \E col \in ArgCols : MakeMove(col)
    \/ UndoMove

vars == <<game, last, bot, transposition_table, valid_moves_cache,
          evaluation_cache, stack, retval>>

Spec == Init /\ [][Next]_vars

\* Play and take-back alone: only the calls of make_move and undo_move that
\* succeed, over the same games.
PlayOn(col) ==
    /\ make_move(game, col).ret
    /\ MakeMove(col)

TakeBack ==
    /\ undo_move(game).ret
    /\ UndoMove

NextLog ==
    \/ \E col \in Cols : PlayOn(col)
    \/ TakeBack

SpecLog == Init /\ [][NextLog]_vars

\* The engines constructed for the searches explored.
Players == {RED, YELLOW}
SearchTypes == {"iterative", "fixed"}

InitBot ==
    /\ game = NewGame
    /\ last = [op |-> "new", arg |-> None, ret |-> TRUE, pre |-> NewGame]
    /\ bot \in {NewBot(depth, player, search_type, seed) :
                    depth \in 1 .. MaxDepth, player \in Players,
                    search_type \in SearchTypes, seed \in Seeds}
    /\ transposition_table = EmptyDict
    /\ valid_moves_cache = EmptyDict
    /\ evaluation_cache = EmptyDict
    /\ stack = << >>
    /\ retval = 0

\* The play between the engine's decisions: along the scripted lines.
SetUpMove(col) ==
    LET r == make_move(game, col)
    IN  /\ Idle
        /\ r.ret => InScope(HistoryCols(r.game), 0)
        /\ game' = r.game
        /\ last' = [op |-> "make_move", arg |-> col, ret |-> r.ret, pre |-> game]
        /\ UNCHANGED botvars

\* Moves are taken back while the engine has not searched yet.
SetUpUndo ==
    LET r == undo_move(game)
    IN  /\ Idle
        /\ DOMAIN transposition_table = {}
        /\ DOMAIN valid_moves_cache = {}
        /\ DOMAIN evaluation_cache = {}
        /\ game' = r.game
        /\ last' = [op |-> "undo_move", arg |-> None, ret |-> r.ret, pre |-> game]
        /\ UNCHANGED botvars

\* The positions at which the engine is asked: the last positions of each
\* scripted line (of the drawn game, those from its 30th move on).
Prefixes(line, from) == {SubSeq(line, 1, k) : k \in from .. Len(line)}

AskedPositions ==
    Prefixes(DrawLine, 30) \cup Prefixes(BlockLine, 5) \cup Prefixes(ThreatLine, 5)
        \cup Prefixes(WinLine, 5) \cup Prefixes(ScenarioLine, 5)

Ask ==
    /\ HistoryCols(game) \in AskedPositions
    /\ GetBestMove

NextBot ==
    \/ \E col \in ArgCols : SetUpMove(col)
    \/ SetUpUndo
    \/ Ask
    \/ RootLoop
    \/ RootAfter
    \/ MinimaxEnter
    \/ MinimaxLoop
    \/ MinimaxAfter

SpecBot == InitBot /\ [][NextBot]_vars

\* One step of a call of get_best_move that is under way.
SearchStep ==
    \/ RootLoop
    \/ RootAfter
    \/ MinimaxEnter
    \/ MinimaxLoop
    \/ MinimaxAfter

\* The game after the columns of cols have been played from the empty board.
Played(cols) == Replay(NewGame, cols, 1)[Len(cols) + 1]

\* The calls of get_best_move alone: the engine is constructed, the game is at
\* one of the asked positions, and nothing else touches the game.
InitRun ==
    /\ game \in {Played(cols) : cols \in AskedPositions}
    /\ last = [op |-> "new", arg |-> None, ret |-> None, pre |-> NewGame]
    /\ bot \in {NewBot(depth, player, search_type, seed) :
                    depth \in 1 .. MaxDepth, player \in Players,
                    search_type \in SearchTypes, seed \in Seeds}
    /\ transposition_table = EmptyDict
    /\ valid_moves_cache = EmptyDict
    /\ evaluation_cache = EmptyDict
    /\ stack = << >>
    /\ retval = 0

NextRun ==
    \/ Ask
    \/ SearchStep

\* get_best_move is an ordinary synchronous call: once entered, the interpreter
\* keeps executing it, so a step of the search that can be taken is taken.  This
\* is WF_vars(SearchStep) written out: a step of the search is enabled exactly
\* while a call is under way (~Idle), so weak fairness says that infinitely
\* often no call is under way or a step of the search is taken.
SearchFair == []<>Idle \/ []<><<SearchStep>>_vars

SpecRun == InitRun /\ [][NextRun]_vars /\ SearchFair

\* ------------------------------------------------ deeper searches, late in the game

\* The depths of the engines asked when few cells are left.
DeepDepths == {4, 5}

InitDeep ==
    /\ game = NewGame
    /\ last = [op |-> "new", arg |-> None, ret |-> TRUE, pre |-> NewGame]
    /\ bot \in {NewBot(depth, player, search_type, seed) :
                    depth \in DeepDepths, player \in Players,
                    search_type \in SearchTypes, seed \in Seeds}
    /\ transposition_table = EmptyDict
    /\ valid_moves_cache = EmptyDict
    /\ evaluation_cache = EmptyDict
    /\ stack = << >>
    /\ retval = 0

\* The positions at which these engines are asked: the drawn game from its
\* 34th move on.
DeepPositions == Prefixes(DrawLine, 34)

AskDeep ==
    /\ HistoryCols(game) \in DeepPositions
    /\ GetBestMove

NextDeep ==
    \/ \E col \in ArgCols : SetUpMove(col)
    \/ SetUpUndo
    \/ AskDeep
    \/ RootLoop
    \/ RootAfter
    \/ MinimaxEnter
    \/ MinimaxLoop
    \/ MinimaxAfter

SpecDeep == InitDeep /\ [][NextDeep]_vars

\* ------------------------------------------------------ Bot: construction

\* No engine: the state before Bot(...) has returned one.
NoBot == [depth |-> 0, player |-> NONE, opponent |-> NONE, search_type |-> "",
          seed |-> 0]

\* Bot.__init__ without its test of search_type.
BotInitUnchecked(depth, player, search_type, seed) ==
    [raised |-> FALSE, bot |-> NewBot(depth, player, search_type, seed)]

\* Bot(depth, player, search_type): ValueError raised, or the engine.
BotInit(depth, player, search_type, seed) ==
    IF search_type \notin {"iterative", "fixed"}
    THEN [raised |-> TRUE, bot |-> NoBot]
    ELSE [raised |-> FALSE, bot |-> NewBot(depth, player, search_type, seed)]

\* The depth and the search_type arguments engines are constructed with.
ConstructDepths == {2}
SearchTypeArgs == {"iterative", "fixed", "invalid", "Iterative", ""}

\* bot = Bot(depth, player, search_type), before the game starts or when the
\* engine has just answered: the engine replaces the one there was, with its
\* own empty table and caches; if ValueError is raised nothing is assigned.
Constructed(r, search_type) ==
    /\ Idle
    /\ game.move_history = << >> \/ last.op = "get_best_move"
    /\ last' = [op |-> "Bot", arg |-> search_type, ret |-> ~r.raised, pre |-> game]
    /\ bot' = IF r.raised THEN bot ELSE r.bot
    /\ transposition_table' = IF r.raised THEN transposition_table ELSE EmptyDict
    /\ valid_moves_cache' = IF r.raised THEN valid_moves_cache ELSE EmptyDict
    /\ evaluation_cache' = IF r.raised THEN evaluation_cache ELSE EmptyDict
    /\ UNCHANGED <<game, stack, retval>>

Construct(depth, player, search_type, seed) ==
    Constructed(BotInit(depth, player, search_type, seed), search_type)

InitConstruct ==
    /\ game = NewGame
    /\ last = [op |-> "new", arg |-> None, ret |-> TRUE, pre |-> NewGame]
    /\ bot = NoBot
    /\ transposition_table = EmptyDict
    /\ valid_moves_cache = EmptyDict
    /\ evaluation_cache = EmptyDict
    /\ stack = << >>
    /\ retval = 0

\* get_best_move is a method: there is an engine to call it on.
AskEngine ==
    /\ bot # NoBot
    /\ Ask

NextConstruct ==
    \/ \E depth \in ConstructDepths, player \in Players,
          search_type \in SearchTypeArgs, seed \in Seeds :
              Construct(depth, player, search_type, seed)
    \/ \E col \in ArgCols : SetUpMove(col)
    \/ SetUpUndo
    \/ AskEngine
    \/ RootLoop
    \/ RootAfter
    \/ MinimaxEnter
    \/ MinimaxLoop
    \/ MinimaxAfter

SpecConstruct == InitConstruct /\ [][NextConstruct]_vars

\* ------------------------------------------------ the hash update, called

\* The hash values the update is called with: zero, the side key, the hashes of
\* the empty board and of the board after one move, and all 64 bits set.
HashInputs ==
    {{}, PlayerKeys[CHOOSE s \in Seeds : TRUE], 0 .. (HASH_BITS - 1),
     _compute_hash(AppBot, NewGame),
     _compute_hash(AppBot, make_move(NewGame, 3).game)}

PlayerValues == {NONE, RED, YELLOW}

\* A call of _update_hash_for_move with arguments of the caller's choice. The
\* function keeps no state: one call and its undoing are explored, on the engine
\* as constructed, not sequences of calls.
UpdateHashForMove(h, row, col, old_player, new_player, old_current_player, new_current_player) ==
    /\ last' = [op |-> "_update_hash_for_move",
                arg |-> [hash_value |-> h, row |-> row, col |-> col,
                         old_player |-> old_player, new_player |-> new_player,
                         old_current_player |-> old_current_player,
                         new_current_player |-> new_current_player],
                ret |-> _update_hash_for_move(bot, h, row, col,
                                              old_player, new_player,
                                              old_current_player,
                                              new_current_player),
                pre |-> game]
    /\ UNCHANGED <<game, botvars>>

\* The call that undoes the last one: the same cell, the occupants swapped and
\* the sides to move swapped, on the value the last call returned.
UndoHashForMove ==
    /\ Idle
    /\ last.op = "_update_hash_for_move"
    /\ last' = [last EXCEPT
                  !.op = "_update_hash_for_move undone",
                  !.ret = _update_hash_for_move(bot, last.ret,
                                                last.arg.row, last.arg.col,
                                                last.arg.new_player,
                                                last.arg.old_player,
                                                last.arg.new_current_player,
                                                last.arg.old_current_player)]
    /\ UNCHANGED <<game, botvars>>

CallUpdateHashForMove ==
    /\ Idle
    /\ last.op = "new"
    /\ \E h \in HashInputs, row \in Rows, col \in Cols,
          old_player \in PlayerValues, new_player \in PlayerValues,
          old_current_player \in PlayerValues,
          new_current_player \in PlayerValues :
              UpdateHashForMove(h, row, col, old_player, new_player,
                                old_current_player, new_current_player)

NextHash ==
    \/ \E col \in ArgCols : SetUpMove(col)
    \/ SetUpUndo
    \/ CallUpdateHashForMove
    \/ UndoHashForMove

SpecHash == Init /\ [][NextHash]_vars

\* ---------------------------------------------------- move ordering, called

\* The hash _order_moves is called with, and another one.
OrderedHash == _compute_hash(AppBot, NewGame)
OtherHash == _compute_hash(AppBot, make_move(NewGame, 3).game)

\* The transposition tables _order_moves is called on: empty, an entry under
\* another hash only, and an entry under the hash with each best move an entry
\* can hold (None or a column), of each bound type.
OrderedTables ==
    {EmptyDict}
    \cup {Put(EmptyDict, OtherHash, TranspositionEntry(0, 1, EXACT, 3))}
    \cup {Put(EmptyDict, OrderedHash, TranspositionEntry(0, 1, bound, best_move)) :
              bound \in {EXACT, LOWER_BOUND, UPPER_BOUND},
              best_move \in {None} \cup Cols}

\* An engine as constructed whose table holds what an earlier node stored.
InitOrder ==
    /\ game = NewGame
    /\ last = [op |-> "new", arg |-> None, ret |-> TRUE, pre |-> NewGame]
    /\ bot = AppBot
    /\ transposition_table \in OrderedTables
    /\ valid_moves_cache = EmptyDict
    /\ evaluation_cache = EmptyDict
    /\ stack = << >>
    /\ retval = 0

\* The columns of a set in ascending order, as get_valid_moves lists them.
RECURSIVE Ascending(_, _)
Ascending(cols, col) ==
    IF col >= COLS THEN << >>
    ELSE IF col \in cols THEN <<col>> \o Ascending(cols, col + 1)
    ELSE Ascending(cols, col + 1)

\* A call of _order_moves with a list of distinct columns.
CallOrderMoves ==
    /\ last.op = "new"
    /\ \E cols \in SUBSET Cols :
           last' = [op |-> "_order_moves",
                    arg |-> Ascending(cols, 0),
                    ret |-> _order_moves(Ascending(cols, 0), OrderedHash,
                                         transposition_table),
                    pre |-> game]
    /\ UNCHANGED <<game, botvars>>

NextOrder == CallOrderMoves

SpecOrder == InitOrder /\ [][NextOrder]_vars

\* ------------------------------------------------ the web application (app.py)

\* The game id the requests create and one that is never created.
GameIds == {"default", "nonexistent"}

\* The module's dict games holds at most the key "default"; while it is empty
\* the game is this value, which no Connect4 object equals.
NoGame == [NewGame EXCEPT !.current_player = NONE]

\* game_id in games, for the dict that goes with the game g.
InGames(game_id, g) == game_id = "default" /\ g # NoGame

\* The JSON answers and their status codes.
Success(col) == [status |-> 200, success |-> TRUE, col |-> col, error |-> ""]
Failure(status, error) ==
    [status |-> status, success |-> FALSE, col |-> None, error |-> error]

\* The searches bot_move starts are explored on boards with at least this many
\* pieces.
MinAppMoves == 31

\* games = {} and bot = Bot(depth=6, player=Player.YELLOW).
InitApp ==
    /\ game = NoGame
    /\ last = [op |-> "new", arg |-> None, ret |-> TRUE, pre |-> NoGame]
    /\ bot = AppBot
    /\ transposition_table = EmptyDict
    /\ valid_moves_cache = EmptyDict
    /\ evaluation_cache = EmptyDict
    /\ stack = << >>
    /\ retval = 0

\* No handler is running: the requests are handled one at a time.
NoRequest == Idle /\ last.op # "get_best_move"

\* POST /api/new_game.
ApiNewGame(game_id) ==
    /\ NoRequest
    /\ game_id = "default"
    /\ game' = NewGame
    /\ last' = [op |-> "new_game", arg |-> game_id, ret |-> Success(None),
                pre |-> game]
    /\ UNCHANGED botvars

\* The answer of /api/move and the game it leaves.
api_move(g, game_id, col) ==
    IF ~InGames(game_id, g)
    THEN [game |-> g, ret |-> Failure(404, "Game not found")]
    ELSE IF col = None \/ col < 0 \/ col >= COLS
    THEN [game |-> g, ret |-> Failure(400, "Invalid column")]
    ELSE IF ~is_valid_move(g, col)
    THEN [game |-> g, ret |-> Failure(400, "Invalid move")]
    ELSE IF ~make_move(g, col).ret
    THEN [game |-> make_move(g, col).game, ret |-> Failure(400, "Move failed")]
    ELSE [game |-> make_move(g, col).game, ret |-> Success(None)]

\* POST /api/move; the moves that succeed follow a scripted game.
ApiMove(game_id, col) ==
    LET r == api_move(game, game_id, col)
    IN  /\ NoRequest
        /\ r.ret.success => InScope(HistoryCols(r.game), 0)
        /\ game' = r.game
        /\ last' = [op |-> "move", arg |-> game_id, ret |-> r.ret, pre |-> game]
        /\ UNCHANGED botvars

\* bot_move's tests before it asks the engine, without the test of the turn.
bot_move_refusal_any_turn(g, game_id) ==
    IF ~InGames(game_id, g) THEN Failure(404, "Game not found")
    ELSE IF g.game_over THEN Failure(400, "Game is over")
    ELSE Success(None)

\* bot_move's tests before it asks the engine: the error answered, or none.
bot_move_refusal(g, game_id) ==
    IF ~InGames(game_id, g) THEN Failure(404, "Game not found")
    ELSE IF g.game_over THEN Failure(400, "Game is over")
    ELSE IF g.current_player # bot.player THEN Failure(400, "Not bot's turn")
    ELSE Success(None)

\* POST /api/bot_move up to the call of get_best_move: an error, or the engine
\* is asked.
ApiBotMove(game_id) ==
    /\ NoRequest
    /\ IF ~bot_move_refusal(game, game_id).success
       THEN /\ last' = [op |-> "bot_move", arg |-> game_id,
                        ret |-> bot_move_refusal(game, game_id), pre |-> game]
            /\ UNCHANGED <<game, botvars>>
       ELSE /\ Len(game.move_history) >= MinAppMoves
            /\ GetBestMove

\* The rest of bot_move once get_best_move has returned: the move is made and
\* answered.
ApiBotMoveReturn ==
    /\ Idle
    /\ last.op = "get_best_move"
    /\ UNCHANGED botvars
    /\ IF last.ret = None
       THEN /\ game' = game
            /\ last' = [op |-> "bot_move", arg |-> "default",
                        ret |-> Failure(400, "No valid moves"), pre |-> last.pre]
       ELSE /\ game' = make_move(game, last.ret).game
            /\ last' = [op |-> "bot_move", arg |-> "default",
                        ret |-> IF make_move(game, last.ret).ret
                                THEN Success(last.ret)
                                ELSE Failure(400, "Bot move failed"),
                        pre |-> last.pre]

NextApp ==
    \/ \E game_id \in GameIds : ApiNewGame(game_id)
    \/ \E game_id \in GameIds, col \in ArgCols : ApiMove(game_id, col)
    \/ \E game_id \in GameIds : ApiBotMove(game_id)
    \/ ApiBotMoveReturn
    \/ RootLoop
    \/ RootAfter
    \/ MinimaxEnter
    \/ MinimaxLoop
    \/ MinimaxAfter

SpecApp == InitApp /\ [][NextApp]_vars

\* ------------------------------------------- one engine, asked again and again

\* The positions one engine is asked at, in any order and any number of times:
\* the end of the drawn game, and two positions with a threat.
AgainPositions ==
    Prefixes(DrawLine, 35) \cup {ThreatLine, SubSeq(BlockLine, 1, 5)}

\* The games at those positions.
AgainGames == {Played(cols) : cols \in AgainPositions}

\* An earlier call kept for comparison: the game it was given and its answer.
NoMemory == [pre |-> NoGame, ret |-> None]

InitAgain ==
    /\ game \in AgainGames
    /\ last = [op |-> "new", arg |-> NoMemory, ret |-> None, pre |-> NoGame]
    /\ bot \in {NewBot(depth, player, search_type, seed) :
                    depth \in 1 .. MaxDepth, player \in Players,
                    search_type \in SearchTypes, seed \in Seeds}
    /\ transposition_table = EmptyDict
    /\ valid_moves_cache = EmptyDict
    /\ evaluation_cache = EmptyDict
    /\ stack = << >>
    /\ retval = 0

\* The caller turns to another position (get_best_move takes the game as its
\* argument); the engine is not touched.
Reposition(g) ==
    /\ Idle
    /\ game' = g
    /\ UNCHANGED <<last, botvars>>

\* get_best_move as in GetBestMove; last.arg keeps one of the earlier calls, the
\* one it kept before or the one that has just been answered.
AskAgain(keep) ==
    /\ Idle
    /\ UNCHANGED <<bot, game, retval>>
    /\ last' = [op |-> "get_best_move",
                arg |-> IF keep \/ last.op # "get_best_move" THEN last.arg
                        ELSE [pre |-> last.pre, ret |-> last.ret],
                ret |-> None,
                pre |-> game]
    /\ IF game.game_over \/ get_valid_moves(game) = << >>
       THEN UNCHANGED <<transposition_table, valid_moves_cache,
                        evaluation_cache, stack>>
       ELSE StartSearch(get_valid_moves(game), _compute_hash(bot, game))

NextAgain ==
    \/ \E g \in AgainGames : Reposition(g)
    \/ \E keep \in BOOLEAN : AskAgain(keep)
    \/ SearchStep

SpecAgain == InitAgain /\ [][NextAgain]_vars

\* ------------------------------------------------ fixed-depth searches

\* RED to move after eight moves in columns 0 to 3: the leaves three plies
\* further are evaluated above 1000 and some of them are one move from a win.
HeuristicLine == <<3, 1, 0, 1, 1, 1, 2, 0>>

\* The positions the fixed-depth engines are asked at.
FixedPositions ==
    {HeuristicLine, ThreatLine, ScenarioLine, SubSeq(BlockLine, 1, 5)}
        \cup Prefixes(DrawLine, 38)

FixedGames == {Played(cols) : cols \in FixedPositions}

InitFixed ==
    /\ game \in FixedGames
    /\ last = [op |-> "new", arg |-> None, ret |-> None, pre |-> NewGame]
    /\ bot \in {NewBot(depth, player, "fixed", seed) :
                    depth \in 1 .. MaxDepth, player \in Players, seed \in Seeds}
    /\ transposition_table = EmptyDict
    /\ valid_moves_cache = EmptyDict
    /\ evaluation_cache = EmptyDict
    /\ stack = << >>
    /\ retval = 0

NextFixed ==
    \/ GetBestMove
    \/ SearchStep

SpecFixed == InitFixed /\ [][NextFixed]_vars

\* ------------------------------------------------- what the claims speak of

\* p owns WIN_LENGTH consecutive cells from (row, col) in direction (dr, dc).
FourFrom(board, p, row, col, dr, dc) ==
    \A i \in 0 .. (WIN_LENGTH - 1) :
        /\ row + dr * i \in Rows
        /\ col + dc * i \in Cols
        /\ board[row + dr * i][col + dc * i] = p

\* p owns WIN_LENGTH consecutive cells along the axis (dr, dc).
FourAlong(board, p, dr, dc) ==
    \E row \in Rows, col \in Cols : FourFrom(board, p, row, col, dr, dc)

\* p owns four in a row along some axis.
HasFour(board, p) ==
    \/ FourAlong(board, p, 0, 1)
    \/ FourAlong(board, p, 1, 0)
    \/ FourAlong(board, p, 1, 1)
    \/ FourAlong(board, p, 1, -1)

\* Every cell is occupied.
AllOccupied(board) == \A row \in Rows, col \in Cols : board[row][col] # NONE

\* No cell of the column is empty.
ColumnFull(board, col) == \A row \in Rows : board[row][col] # NONE

\* The lowest empty cell of a column that has one: the largest empty row index.
LowestEmpty(board, col) ==
    CHOOSE row \in Rows :
        /\ board[row][col] = NONE
        /\ \A r \in Rows : board[r][col] = NONE => r <= row

\* The columns in which p, moving next in g, would win at once.
ImmediateWins(g, p) ==
    {col \in Cols :
        /\ ~g.game_over
        /\ ~ColumnFull(g.board, col)
        /\ HasFour([g.board EXCEPT ![LowestEmpty(g.board, col)][col] = p], p)}

\* get_best_move has returned and nothing has been called since.
Answered == Idle /\ last.op = "get_best_move"

\* --------------------------------------------------------------- claims

\* C1: get_best_move never returns an illegal column: a result other than None
\* is a column of the board that was not full when the call was made.
C1_ReturnsLegalColumn ==
    (Answered /\ last.ret # None) =>
        /\ last.ret \in Cols
        /\ ~ColumnFull(last.pre.board, last.ret)
        /\ is_valid_move(last.pre, last.ret)

\* The engine answered on a board with a full column.
C1_Witness ==
    /\ Answered
    /\ last.ret # None
    /\ \E col \in Cols : ColumnFull(last.pre.board, col)

\* C2: called on the searching side's turn with an immediately winning column,
\* get_best_move returns a winning column, and it returns from inside the loop
\* over the root candidates (in iterative mode in the pass of depth 1), at the
\* first candidate of the ordering that wins: no candidate after it is tried.
C2_ImmediateWinReturnedAtOnce ==
    [][(/\ ~Idle
        /\ Idle'
        /\ last.pre.current_player = bot.player
        /\ ImmediateWins(last.pre, bot.player) # {})
       => LET f == stack[1]
              wins == ImmediateWins(last.pre, bot.player)
          IN  /\ Len(stack) = 1
              /\ f.pc = "loop"
              /\ f.idx \in 1 .. Len(f.ordered_moves)
              /\ last'.ret = f.ordered_moves[f.idx]
              /\ last'.ret \in wins
              /\ \A j \in 1 .. (f.idx - 1) : f.ordered_moves[j] \notin wins
              /\ f.fn = "iterative" => f.depth = 1
              /\ LET won == make_move(last.pre, last'.ret).game
                 IN  won.game_over /\ won.winner = bot.player
              /\ game' = last.pre]_vars

\* The winning column was returned after an earlier candidate had been searched.
C2_Witness ==
    /\ Answered
    /\ last.pre.current_player = bot.player
    /\ last.ret \in ImmediateWins(last.pre, bot.player)
    /\ last.ret # center_order[1]
    /\ ~ColumnFull(last.pre.board, center_order[1])
    /\ DOMAIN transposition_table # {}

\* C3: on the searching side's turn, with an immediately winning column for the
\* opponent and none for the searching side, get_best_move at depth >= 2 returns
\* one of the opponent's winning columns.
C3_BlocksImmediateThreat ==
    (/\ Answered
     /\ bot.depth >= 2
     /\ ~last.pre.game_over
     /\ last.pre.current_player = bot.player
     /\ ImmediateWins(last.pre, bot.player) = {}
     /\ ImmediateWins(last.pre, bot.opponent) # {})
    => last.ret \in ImmediateWins(last.pre, bot.opponent)

\* The game as it is when the i-th activation on the stack gets control back:
\* the game its callee was entered with, or for the innermost one the game now.
GameAbove(i) == IF i = Len(stack) THEN game ELSE stack[i + 1].entry

\* Every activation that waits for a call it made has exactly one move of its
\* own outstanding, and every other activation has none.
Balanced ==
    \A i \in 1 .. Len(stack) :
        IF stack[i].pc = "after"
        THEN /\ Len(GameAbove(i).move_history)
                    = Len(stack[i].entry.move_history) + 1
             /\ undo_move(GameAbove(i)).game = stack[i].entry
        ELSE /\ i = Len(stack)
             /\ game = stack[i].entry

\* C4: every make_move of the search is undone before the node returns: when
\* an activation returns the game is the game it was entered with, on every
\* path; and when get_best_move has returned the game is what it was at the call.
C4_SearchRestoresGame ==
    [][/\ Balanced'
       /\ Len(stack') < Len(stack) => game' = Top.entry
       /\ Answered' => game' = last'.pre]_vars

\* A search that returned early from a minimizing node (an early loss) and cut a
\* maximizing node off has answered.
C4_Witness ==
    /\ Answered
    /\ last.ret # None
    /\ game = last.pre
    /\ \E h \in DOMAIN transposition_table :
           /\ transposition_table[h].score < -1000
           /\ transposition_table[h].best_move # None
    /\ \E h \in DOMAIN transposition_table :
           transposition_table[h].bound = LOWER_BOUND

\* C5: a successful make_move followed by undo_move restores the board encoding,
\* the side to move, the terminal flag, the winner and the move log.
C5_UndoRestores ==
    [][(last.op = "make_move" /\ last.ret /\ last'.op = "undo_move")
       => /\ last'.ret
          /\ get_board(game') = get_board(last.pre)
          /\ game'.current_player = last.pre.current_player
          /\ game'.game_over = last.pre.game_over
          /\ game'.winner = last.pre.winner
          /\ game'.move_history = last.pre.move_history]_vars

\* A move that won the game has been undone.
C5_Witness ==
    /\ last.op = "undo_move"
    /\ last.ret
    /\ last.pre.game_over
    /\ last.pre.winner # NONE
    /\ ~game.game_over

\* C6: the game is over with winner p exactly when p owns four in a row.
C6_WinIffFour ==
    \A p \in {RED, YELLOW} :
        (game.game_over /\ game.winner = p) <=> HasFour(game.board, p)

\* A game won along a diagonal only.
C6_Witness ==
    /\ game.game_over
    /\ game.winner # NONE
    /\ ~FourAlong(game.board, game.winner, 0, 1)
    /\ ~FourAlong(game.board, game.winner, 1, 0)

\* C7: the game is over without a winner exactly when every cell is occupied
\* and nobody owns four in a row.
C7_DrawIffFullNoFour ==
    (game.game_over /\ game.winner = NONE)
        <=> (/\ AllOccupied(game.board)
             /\ ~HasFour(game.board, RED)
             /\ ~HasFour(game.board, YELLOW))

\* The drawn game.
C7_Witness ==
    /\ game.game_over
    /\ game.winner = NONE
    /\ last.op = "make_move"
    /\ last.ret

\* C8: a cell is occupied only if every cell below it in its column is.
C8_Gravity ==
    \A col \in Cols : \A row \in Rows :
        game.board[row][col] # NONE =>
            \A below \in Rows : below > row => game.board[below][col] # NONE

\* Three activations deep in a search, on a board with a stack of pieces.
C8_Witness ==
    /\ Len(stack) >= 3
    /\ \E col \in Cols :
           /\ game.board[ROWS - 2][col] # NONE
           /\ game.board[0][col] = NONE

\* C9: make_move fails exactly when the column is out of range, the column is
\* full or the game is over, and a failed call changes nothing.
C9_MakeMoveFailsExactly ==
    last.op = "make_move" =>
        /\ ~last.ret <=> \/ last.arg < 0
                         \/ last.arg >= COLS
                         \/ last.pre.game_over
                         \/ ColumnFull(last.pre.board, last.arg)
        /\ ~last.ret => game = last.pre

\* A move refused because the game was over, in a column with room.
C9_Witness ==
    /\ last.op = "make_move"
    /\ ~last.ret
    /\ last.pre.game_over
    /\ last.arg \in Cols
    /\ ~ColumnFull(last.pre.board, last.arg)

\* C10: a successful make_move writes the mover into the lowest empty cell of
\* the column and nowhere else, and appends (row, col, mover) to the log.
C10_MakeMovePlacesLowest ==
    (last.op = "make_move" /\ last.ret) =>
        LET row == LowestEmpty(last.pre.board, last.arg)
            mover == last.pre.current_player
        IN  /\ game.board = [last.pre.board EXCEPT ![row][last.arg] = mover]
            /\ get_board(game)[row + 1][last.arg + 1] = mover
            /\ game.move_history
                   = Append(last.pre.move_history, <<row, last.arg, mover>>)

\* A piece placed on top of another.
C10_Witness ==
    /\ last.op = "make_move"
    /\ last.ret
    /\ last.pre.board[ROWS - 1][last.arg] # NONE
    /\ game.board[ROWS - 2][last.arg] = last.pre.current_player

\* The cell written by the move that last.op = "make_move" records.
LastRow == game.move_history[Len(game.move_history)][1]

\* C11: after every successful make_move, game-ending moves included, the hash
\* of the board before, updated with the changed cell (empty to mover) and the
\* change of the side to move of that transition, is the full hash of the board
\* after; and the reverse update gives the full hash of the board undo_move
\* gives back, which is that of the board before.
C11_IncrementalHashAgrees ==
    (last.op = "make_move" /\ last.ret) =>
        LET before == _compute_hash(bot, last.pre)
            after == _compute_hash(bot, game)
            mover == last.pre.current_player
        IN  /\ _update_hash_for_move(bot, before, LastRow, last.arg, NONE, mover,
                                     mover, game.current_player) = after
            /\ _update_hash_for_move(bot, after, LastRow, last.arg, mover, NONE,
                                     game.current_player, mover)
                   = _compute_hash(bot, undo_move(game).game)
            /\ _compute_hash(bot, undo_move(game).game) = before

\* A move by YELLOW that ended the game: the side to move did not change.
C11_Witness ==
    /\ last.op = "make_move"
    /\ last.ret
    /\ game.game_over
    /\ game.current_player = YELLOW
    /\ last.pre.current_player = YELLOW
    /\ _compute_hash(bot, game) # _compute_hash(bot, last.pre)

\* C12: for any hash value and any arguments, _update_hash_for_move followed by
\* the same call with the occupants swapped and the sides to move swapped gives
\* the hash value back; and the full hash of the board after make_move then
\* undo_move is the full hash of the board before.
C12_HashApplyUndo ==
    [][/\ last'.op = "_update_hash_for_move undone"
            => last'.ret = last'.arg.hash_value
       /\ (last.op = "make_move" /\ last.ret /\ last'.op = "undo_move")
            => _compute_hash(bot, game') = _compute_hash(bot, last.pre)]_vars

\* The update of the empty board's hash for a move by RED has been undone.
C12_Witness ==
    /\ last.op = "_update_hash_for_move undone"
    /\ last.arg.hash_value = _compute_hash(bot, NewGame)
    /\ last.arg.old_player = NONE
    /\ last.arg.new_player = RED
    /\ last.arg.old_current_player = RED
    /\ last.arg.new_current_player = YELLOW
    /\ last.ret = _compute_hash(bot, NewGame)

\* The engine's three stores hold nothing.
StoresEmpty ==
    /\ DOMAIN transposition_table = {}
    /\ DOMAIN valid_moves_cache = {}
    /\ DOMAIN evaluation_cache = {}

\* C13: every call of get_best_move clears the transposition table, the
\* evaluation cache and the valid-moves cache at its start, whatever the
\* position, a terminal one included: the step that makes the call leaves the
\* three stores empty, and a call that returned None has left them empty.
C13_StoresClearedByEveryCall ==
    [][(Idle /\ last'.op = "get_best_move") => StoresEmpty']_<<game, last.op, last.pre, botvars>>

\* The first candidate of the root loop: the first column of the center-out
\* order that has room.
FirstCandidate(g) ==
    center_order[CHOOSE i \in 1 .. Len(center_order) :
                     /\ ~ColumnFull(g.board, center_order[i])
                     /\ \A j \in 1 .. (i - 1) : ColumnFull(g.board, center_order[j])]

\* get_best_move was called at depth >= 2 on a position that is not terminal
\* and has a legal move, and has returned.
SearchedNonTrivially ==
    /\ Answered
    /\ bot.depth >= 2
    /\ ~last.pre.game_over
    /\ \E col \in Cols : ~ColumnFull(last.pre.board, col)

\* C14 as stated: after any get_best_move call at depth >= 2 on a non-terminal
\* position with legal moves, the transposition table is not empty.
C14_TableNonEmptyAfterSearch ==
    SearchedNonTrivially => DOMAIN transposition_table # {}

\* C14 as amended: the same, unless the first candidate of the root loop wins
\* at once for the searching side (the call then returns before any node is
\* searched, and the table is empty).
C14_TableNonEmptyUnlessFirstWins ==
    SearchedNonTrivially =>
        LET first_wins ==
                /\ last.pre.current_player = bot.player
                /\ FirstCandidate(last.pre) \in ImmediateWins(last.pre, bot.player)
        IN  IF first_wins
            THEN DOMAIN transposition_table = {} /\ last.ret = FirstCandidate(last.pre)
            ELSE DOMAIN transposition_table # {}

\* A search that returned an immediate win found at a later candidate: the
\* table holds what the search of the earlier candidates stored.
C14_Witness ==
    /\ SearchedNonTrivially
    /\ last.pre.current_player = bot.player
    /\ last.ret \in ImmediateWins(last.pre, bot.player)
    /\ last.ret # FirstCandidate(last.pre)
    /\ DOMAIN transposition_table # {}

\* C15: get_best_move returns None exactly when the position it is called on
\* is terminal or has no legal move, in both modes and at every depth; and the
\* game is then (as after every call) what it was at the call.
C15_NoneIffNoMove ==
    Answered =>
        /\ last.ret = None <=> \/ last.pre.game_over
                               \/ \A col \in Cols : ColumnFull(last.pre.board, col)
        /\ game = last.pre

\* The engine asked on the full board of the drawn game.
C15_Witness ==
    /\ Answered
    /\ last.ret = None
    /\ AllOccupied(last.pre.board)
    /\ last.pre.winner = NONE

\* The number of times m occurs in the list moves.
Occurrences(m, moves) == Cardinality({i \in 1 .. Len(moves) : moves[i] = m})

\* C16: for every list of distinct legal columns and every table content,
\* _order_moves returns a permutation of its input: every move of the input
\* once, and no other column, whether or not the table holds a best move for
\* the hash and whether or not that move is in the list.
C16_OrderIsPermutation ==
    last.op = "_order_moves" =>
        /\ Len(last.ret) = Len(last.arg)
        /\ \A m \in -1 .. COLS : Occurrences(m, last.ret) = Occurrences(m, last.arg)

\* The table's best move is in the list, is not the first of the center-out
\* order, and comes first in the result.
C16_Witness ==
    /\ last.op = "_order_moves"
    /\ OrderedHash \in DOMAIN transposition_table
    /\ Len(last.arg) = COLS
    /\ last.ret[1] = transposition_table[OrderedHash].best_move
    /\ last.ret[1] = 6
    /\ last.ret[2] = 3

\* C17: after a successful make_move that does not end the game the side to
\* move is the other player; after one that ends the game (win or draw) the
\* side to move is still the mover, and on a win the winner is that mover.
C17_SideToMoveAfterMove ==
    (last.op = "make_move" /\ last.ret) =>
        LET mover == last.pre.current_player
        IN  IF game.game_over
            THEN /\ game.current_player = mover
                 /\ game.winner # NONE => game.winner = mover
            ELSE /\ game.current_player # mover
                 /\ game.current_player \in {RED, YELLOW}
                 /\ game.winner = NONE

\* RED made the move that won the game and is still the side to move.
C17_Witness ==
    /\ last.op = "make_move"
    /\ last.ret
    /\ game.game_over
    /\ game.winner = RED
    /\ game.current_player = RED

\* C18: undo_move on an empty move log returns False and changes nothing; in
\* every other state it returns True and removes exactly the last logged move:
\* the log loses its last entry and that entry's cell is emptied, no other.
C18_UndoOnEmptyLog ==
    last.op = "undo_move" =>
        IF last.pre.move_history = << >>
        THEN ~last.ret /\ game = last.pre
        ELSE LET n == Len(last.pre.move_history)
                 e == last.pre.move_history[n]
             IN  /\ last.ret
                 /\ game.move_history = SubSeq(last.pre.move_history, 1, n - 1)
                 /\ game.board = [last.pre.board EXCEPT ![e[1]][e[2]] = NONE]
                 /\ last.pre.board[e[1]][e[2]] = e[3]

\* undo_move refused on an empty log.
C18_Witness ==
    /\ last.op = "undo_move"
    /\ ~last.ret
    /\ last.pre.move_history = << >>
    /\ game = NewGame

\* C19: get_valid_moves lists, in strictly ascending order, exactly the columns
\* that still have room (the top cell empty); it is empty exactly when the
\* board is full.
C19_ValidMovesAscendingExact ==
    LET valid_moves == get_valid_moves(game)
    IN  /\ \A i \in 1 .. (Len(valid_moves) - 1) : valid_moves[i] < valid_moves[i + 1]
        /\ {valid_moves[i] : i \in 1 .. Len(valid_moves)}
               = {col \in Cols : game.board[0][col] = NONE}
        /\ {valid_moves[i] : i \in 1 .. Len(valid_moves)}
               = {col \in Cols : ~ColumnFull(game.board, col)}
        /\ valid_moves = << >> <=> AllOccupied(game.board)

\* A finished game with a full column and columns with room.
C19_Witness ==
    /\ game.game_over
    /\ \E col \in Cols : ColumnFull(game.board, col)
    /\ Len(get_valid_moves(game)) > 1
    /\ Len(get_valid_moves(game)) < COLS

\* C20: constructing a Bot with a search_type other than "iterative" or "fixed"
\* raises at construction, so no engine with another search mode exists and no
\* search runs with one; construction with either recognized mode succeeds,
\* with an empty transposition table and empty caches.
C20_UnrecognizedModeFailsFast ==
    /\ bot # NoBot => bot.search_type \in {"iterative", "fixed"}
    /\ ~Idle => bot # NoBot /\ Top.fn \in {"iterative", "fixed", "minimax"}
    /\ last.op = "Bot" =>
          /\ last.ret <=> last.arg \in {"iterative", "fixed"}
          /\ last.ret => /\ StoresEmpty
                         /\ bot # NoBot
                         /\ bot.search_type = last.arg

\* A construction refused while an engine that has searched is there: that
\* engine and its stores are kept.
C20_Witness ==
    /\ last.op = "Bot"
    /\ ~last.ret
    /\ last.arg = "invalid"
    /\ bot # NoBot
    /\ ~StoresEmpty

\* The integer h is below 2^64: no bit at position 64 or above is set.
Is64Bit(h) == \A i \in h : i < HASH_BITS

\* C21: the position hash is a 64-bit integer: the value _compute_hash returns
\* for the board, and the value _update_hash_for_move returns for the move just
\* made, lie in [0, 2^64), whichever side is to move.
C21_HashIs64Bit ==
    /\ Is64Bit(_compute_hash(bot, game))
    /\ (last.op = "make_move" /\ last.ret) =>
           Is64Bit(_update_hash_for_move(bot, _compute_hash(bot, last.pre),
                                         LastRow, last.arg,
                                         NONE, last.pre.current_player,
                                         last.pre.current_player,
                                         game.current_player))

\* get_best_move was called on the position of the scenario and has returned.
ScenarioAnswered == Answered /\ HistoryCols(last.pre) = ScenarioLine

Completing ==
    /\ ~Idle
    /\ Top.fn = "minimax"
    /\ Top.pc = "loop"
    /\ Top.idx > Len(Top.ordered_moves)

\* The window the innermost _minimax_with_hash was called with, read from the
\* activation that called it and waits for it.
EnteredWindow ==
    LET caller == stack[Len(stack) - 1]
    IN  IF caller.fn # "minimax" THEN [alpha |-> NegInf, beta |-> PosInf]
        ELSE IF caller.maximizing
        THEN [alpha |-> caller.alpha,
              beta |-> IF caller.probing THEN Add1(caller.alpha) ELSE caller.beta]
        ELSE [alpha |-> IF caller.probing THEN Sub1(caller.beta) ELSE caller.alpha,
              beta |-> caller.beta]

\* The classification of the claim: value against the window (alpha, beta).
ClaimedBound(value, alpha, beta) ==
    IF value <= alpha THEN UPPER_BOUND
    ELSE IF value >= beta THEN LOWER_BOUND
    ELSE EXACT

\* C23: when an internal node, maximizing or minimizing, completes, the entry it
\* stores under its hash holds the value it returns, the depth searched and the
\* move that achieved the value, and is classified UPPER_BOUND if the value is
\* <= the alpha the node began its loop with, LOWER_BOUND if it is >= the
\* node's beta, and EXACT otherwise; a value strictly between the alpha and
\* beta the node was entered with is stored as EXACT.
C23_BoundClassification ==
    [][Completing =>
          LET stored == transposition_table'[Top.position_hash]
              value == retval'
              w == EnteredWindow
          IN  /\ stored.score = value
              /\ stored.depth = Top.depth
              /\ stored.best_move = Top.best_move
              /\ Top.maximizing =>
                     stored.bound = ClaimedBound(value, Top.original_alpha, Top.beta)
              /\ (w.alpha < value /\ value < w.beta) => stored.bound = EXACT
      ]_<<game, last.op, last.pre, botvars>>

\* get_best_move was called with the searching side to move and has not
\* returned yet.
SearchingOnTurn == ~Idle /\ last.pre.current_player = bot.player

\* C24: when get_best_move is called on the searching side's turn, at every node
\* of the search (the root, internal nodes, depth-0 leaves and terminal nodes)
\* the position_hash the activation was given is _compute_hash of the game the
\* activation was entered with.
C24_ThreadedHashIsFullHash ==
    SearchingOnTurn =>
        \A i \in 1 .. Len(stack) :
            stack[i].position_hash = _compute_hash(bot, stack[i].entry)

\* The innermost activation is a _minimax_with_hash that has just been called:
\* its next step begins with the transposition-table check.
Entering == ~Idle /\ Top.fn = "minimax" /\ Top.pc = "enter"

\* What a node returns when it is decided without a table entry and without
\* recursion: a finished game, a depth-0 leaf, or no move to make.
DecidedScore(f) ==
    IF game.game_over THEN TerminalScore(bot, game, f.depth)
    ELSE IF f.depth = 0
    THEN IF f.position_hash \in DOMAIN evaluation_cache
         THEN evaluation_cache[f.position_hash]
         ELSE _evaluate_position(bot, game)
    ELSE 0

PassEnding ==
    /\ ~Idle
    /\ Top.fn # "minimax"
    /\ Top.pc = "loop"
    /\ Top.idx > Len(Top.ordered_moves)

\* The value the pass just completed found for the root candidate move: the
\* score of the entry its node left in the table.
PassValue(move) ==
    transposition_table[
        _update_hash_for_move(bot, Top.position_hash,
                              get_next_open_row(game, move), move,
                              NONE, bot.player, bot.player, bot.opponent)].score

\* move is the first candidate of the pass's ordering whose value is maximal.
FirstMaximal(move, ordered_moves) ==
    \E i \in 1 .. Len(ordered_moves) :
        /\ ordered_moves[i] = move
        /\ \A j \in 1 .. Len(ordered_moves) :
               PassValue(ordered_moves[j]) <= PassValue(move)
        /\ \A j \in 1 .. (i - 1) : PassValue(ordered_moves[j]) < PassValue(move)

\* C26: in iterative mode the passes run at depth 1, 2, ..., D in that order;
\* the transposition table and the caches are not cleared between passes nor
\* at any other moment of the search; and without an immediate win at the root
\* the column returned is the best move of the pass of depth D: the first
\* candidate of that pass's ordering whose value is maximal in that pass.
C26_IterativePasses ==
    [][/\ (Idle /\ ~Idle' /\ bot.search_type = "iterative") => Top'.depth = 1
       /\ (~Idle /\ ~Idle') =>
              /\ stack'[1].depth # stack[1].depth =>
                     /\ PassEnding
                     /\ Len(stack) = 1
                     /\ bot.search_type = "iterative"
                     /\ Top'.depth = Top.depth + 1
                     /\ Top'.depth <= bot.depth
                     /\ Top'.idx = 1
                     /\ Top'.best_value = NegInf
                     /\ transposition_table' = transposition_table
                     /\ valid_moves_cache' = valid_moves_cache
                     /\ evaluation_cache' = evaluation_cache
                     /\ DOMAIN transposition_table # {}
              /\ DOMAIN transposition_table \subseteq DOMAIN transposition_table'
              /\ DOMAIN valid_moves_cache \subseteq DOMAIN valid_moves_cache'
              /\ DOMAIN evaluation_cache \subseteq DOMAIN evaluation_cache'
       /\ (PassEnding /\ Idle' /\ bot.search_type = "iterative") =>
              /\ Top.depth = bot.depth
              /\ last'.ret \in Cols
              /\ FirstMaximal(last'.ret, Top.ordered_moves)
              /\ PassValue(last'.ret) = Top.best_value
              /\ \A j \in 1 .. Len(Top.ordered_moves) :
                     transposition_table[
                         _update_hash_for_move(
                             bot, Top.position_hash,
                             get_next_open_row(game, Top.ordered_moves[j]),
                             Top.ordered_moves[j],
                             NONE, bot.player, bot.player, bot.opponent)].depth
                         = bot.depth - 1
      ]_<<game, last.op, last.pre, botvars>>

\* An iterative search of depth >= 3 went through all its passes and returned
\* a column that is not the first candidate of the ordering.
C26_Witness ==
    /\ Answered
    /\ bot.search_type = "iterative"
    /\ bot.depth >= 3
    /\ last.ret \in Cols
    /\ last.ret # FirstCandidate(last.pre)
    /\ ImmediateWins(last.pre, bot.player) = {}
    /\ \E h \in DOMAIN transposition_table :
           transposition_table[h].depth = bot.depth - 1

\* The score the claim gives a finished game with winner winner at remaining
\* depth d.
ClaimedTerminalScore(winner, d) ==
    IF winner = bot.player THEN 1000 + d
    ELSE IF winner = bot.opponent THEN -1000 - d
    ELSE 0

\* The innermost activation is in its loop and the move it tries next ends the
\* game with winner as the winner.
TryingWinFor(winner) ==
    /\ ~Idle
    /\ Top.fn = "minimax"
    /\ Top.pc = "loop"
    /\ Top.idx <= Len(Top.ordered_moves)
    /\ LET made == make_move(game, Top.ordered_moves[Top.idx])
       IN  made.ret /\ made.game.game_over /\ made.game.winner = winner

\* C27: a node entered on a finished game with remaining depth d returns
\* 1000 + d if the searching side has won, -1000 - d if the opponent has and 0
\* for a draw, and the table then holds that score as an EXACT entry of depth d
\* without a move; a node of depth d that finds its own winning move (the
\* maximizing node a win, the minimizing node a loss of the searching side)
\* returns the same scores with that move. So a win scores strictly higher, and
\* a loss strictly lower, at every greater remaining depth.
C27_TerminalScores ==
    [][/\ (Entering /\ game.game_over) =>
              /\ Len(stack') < Len(stack)
              /\ retval' = ClaimedTerminalScore(game.winner, Top.depth)
              /\ transposition_table'[Top.position_hash]
                     = TranspositionEntry(retval', Top.depth, EXACT, None)
              /\ \A d \in (Top.depth + 1) .. (Top.depth + 6) :
                     /\ game.winner = bot.player =>
                            ClaimedTerminalScore(game.winner, d) > retval'
                     /\ game.winner = bot.opponent =>
                            ClaimedTerminalScore(game.winner, d) < retval'
       /\ (TryingWinFor(bot.player) /\ Top.maximizing) =>
              /\ Len(stack') < Len(stack)
              /\ retval' = 1000 + Top.depth
              /\ transposition_table'[Top.position_hash]
                     = TranspositionEntry(retval', Top.depth, EXACT,
                                          Top.ordered_moves[Top.idx])
       /\ (TryingWinFor(bot.opponent) /\ ~Top.maximizing) =>
              /\ Len(stack') < Len(stack)
              /\ retval' = -1000 - Top.depth
              /\ transposition_table'[Top.position_hash]
                     = TranspositionEntry(retval', Top.depth, EXACT,
                                          Top.ordered_moves[Top.idx])
      ]_<<game, last.op, last.pre, botvars>>

\* A node entered on a game the searching side has won has returned to its
\* caller with remaining depth 1.
C27_Witness ==
    /\ ~Idle
    /\ Top.pc = "after"
    /\ game.game_over
    /\ game.winner = bot.player
    /\ Top.new_hash \in DOMAIN transposition_table
    /\ transposition_table[Top.new_hash] = TranspositionEntry(1001, 1, EXACT, None)
    /\ retval = 1001

\* The innermost activation has just been called, and its transposition-table
\* check will not make it return.
EnteringPastCheck ==
    /\ Entering
    /\ ~TTCheck(Top, transposition_table).hit
    /\ ~game.game_over

\* The node is about to take its leaf score from the evaluation cache.
TakesCachedScore ==
    /\ EnteringPastCheck
    /\ Top.depth = 0
    /\ Top.position_hash \in DOMAIN evaluation_cache

\* The node is about to take its move list from the valid-moves cache.
TakesCachedMoves ==
    /\ EnteringPastCheck
    /\ Top.depth > 0
    /\ Top.position_hash \in DOMAIN valid_moves_cache

\* C28: within a get_best_move call made on the searching side's turn, a node
\* that takes its move list from the valid-moves cache, or its leaf score from
\* the evaluation cache, takes what get_valid_moves resp. _evaluate_position
\* returns for the game at that node; and what the caches hold under the hash
\* of a node being searched, or of the node that has just returned, is that
\* node's move list resp. evaluation.
C28_CachedEqualsComputed ==
    SearchingOnTurn =>
        /\ TakesCachedMoves =>
               valid_moves_cache[Top.position_hash] = get_valid_moves(game)
        /\ TakesCachedScore =>
               evaluation_cache[Top.position_hash] = _evaluate_position(bot, game)
        /\ \A i \in 1 .. Len(stack) :
               LET h == stack[i].position_hash
                   g == stack[i].entry
               IN  /\ h \in DOMAIN valid_moves_cache =>
                          valid_moves_cache[h] = get_valid_moves(g)
                   /\ h \in DOMAIN evaluation_cache =>
                          evaluation_cache[h] = _evaluate_position(bot, g)
        /\ Top.pc = "after" =>
               /\ Top.new_hash \in DOMAIN valid_moves_cache =>
                      valid_moves_cache[Top.new_hash] = get_valid_moves(game)
               /\ Top.new_hash \in DOMAIN evaluation_cache =>
                      evaluation_cache[Top.new_hash] = _evaluate_position(bot, game)

\* A node asked again takes from the cache the move list of a board with a
\* full column.
C28_Witness ==
    /\ SearchingOnTurn
    /\ TakesCachedMoves
    /\ Len(valid_moves_cache[Top.position_hash]) < COLS
    /\ valid_moves_cache[Top.position_hash] = get_valid_moves(game)

\* The columns of the set cols in the center-out preference 3, 2, 4, 1, 5, 0, 6.
CenterOut(cols) == SelectSeq(<<3, 2, 4, 1, 5, 0, 6>>, LAMBDA m : m \in cols)

\* C29: _order_moves puts the best move the transposition table records for
\* the hash first exactly when there is such an entry, its best move is not
\* None and is one of the legal moves; the other legal moves follow, and
\* without such a move all legal moves come, in the center-out preference
\* 3, 2, 4, 1, 5, 0, 6.
C29_BestFirstThenCenterOut ==
    last.op = "_order_moves" =>
        LET legal == {last.arg[i] : i \in 1 .. Len(last.arg)}
            recorded == /\ OrderedHash \in DOMAIN transposition_table
                        /\ transposition_table[OrderedHash].best_move # None
                        /\ transposition_table[OrderedHash].best_move \in legal
            best_move == transposition_table[OrderedHash].best_move
        IN  IF recorded
            THEN last.ret = <<best_move>> \o CenterOut(legal \ {best_move})
            ELSE last.ret = CenterOut(legal)

\* The table's best move, column 0, comes first and the five other legal
\* columns follow center-out; column 3 is not legal.
C29_Witness ==
    /\ last.op = "_order_moves"
    /\ OrderedHash \in DOMAIN transposition_table
    /\ transposition_table[OrderedHash].best_move = 0
    /\ last.arg = <<0, 1, 2, 4, 5, 6>>
    /\ last.ret = <<0, 2, 4, 1, 5, 6>>

\* The windows of the board: the sets of WIN_LENGTH consecutive cells along a
\* row, a column or a diagonal that lie on the board, each window once.
Windows ==
    {w \in {{<<row + dr * i, col + dc * i>> : i \in 0 .. (WIN_LENGTH - 1)} :
                row \in Rows, col \in Cols,
                dr \in {-1, 0, 1}, dc \in {-1, 0, 1}} :
        /\ Cardinality(w) = WIN_LENGTH
        /\ \A cell \in w : cell[1] \in Rows /\ cell[2] \in Cols}

\* What a window contributes for the searching side p against q.
WindowValue(board, p, q, w) ==
    LET own == Cardinality({cell \in w : board[cell[1]][cell[2]] = p})
        opp == Cardinality({cell \in w : board[cell[1]][cell[2]] = q})
    IN  IF own >= 1 /\ opp = 0 THEN Pow10(own)
        ELSE IF opp >= 1 /\ own = 0 THEN -Pow10(opp)
        ELSE 0

\* The sum of the contributions of the windows of ws.
RECURSIVE SumOfWindows(_, _, _, _)
SumOfWindows(board, p, q, ws) ==
    IF ws = {} THEN 0
    ELSE LET w == CHOOSE x \in ws : TRUE
         IN  WindowValue(board, p, q, w) + SumOfWindows(board, p, q, ws \ {w})

\* A depth-0 node that is not decided by the table nor by the end of the game:
\* its next step evaluates the position.
Evaluating == EnteringPastCheck /\ Top.depth = 0

\* C30: _evaluate_position returns the sum, over every window of 4 consecutive
\* cells on the board (horizontal, vertical, both diagonals; 69 of them, each
\* counted once), of +10^k for k >= 1 pieces of the searching side and none of
\* the opponent, -10^k for k >= 1 pieces of the opponent and none of the
\* searching side, and 0 for a mixed or an empty window: every leaf the search
\* evaluates returns and caches that sum.
C30_EvaluationIsSumOverWindows ==
    [][Evaluating =>
          LET sum == SumOfWindows(game.board, bot.player, bot.opponent, Windows)
          IN  /\ Cardinality(Windows) = 69
              /\ Len(stack') < Len(stack)
              /\ retval' = sum
              /\ evaluation_cache'[Top.position_hash] = sum
              /\ _evaluate_position(bot, game) = sum
      ]_<<game, last.op, last.pre, botvars>>

\* A leaf has returned an evaluation in which windows of both sides count:
\* the sum is negative although the searching side owns a window with two or
\* more of its pieces and none of the opponent.
C30_Witness ==
    /\ ~Idle
    /\ Top.pc = "after"
    /\ ~game.game_over
    /\ Top.new_hash \in DOMAIN evaluation_cache
    /\ retval = evaluation_cache[Top.new_hash]
    /\ retval < 0
    /\ \E w \in Windows :
           WindowValue(game.board, bot.player, bot.opponent, w) >= 100
    /\ \E w \in Windows :
           WindowValue(game.board, bot.player, bot.opponent, w) = 0

\* j more calls of undo_move on g succeed and pass, in reverse, through the
\* states after[j], ..., after[1], none of them terminal.
RECURSIVE RollsBack(_, _, _)
RollsBack(g, after, j) ==
    \/ j = 0
    \/ LET r == undo_move(g)
       IN  /\ r.ret
           /\ r.game = after[j]
           /\ ~r.game.game_over
           /\ r.game.winner = NONE
           /\ RollsBack(r.game, after, j - 1)

\* C35: multi-step rollback.  Whatever the game has been through, it is the
\* state that its n logged moves produce from the empty board, and for every
\* k <= n, k calls of undo_move yield exactly the state (grid, side to move,
\* game_over = False, winner = NONE, log) after the first n - k of them.
C35_MultiStepRollback ==
    LET cols == HistoryCols(game)
        after == Replay(NewGame, cols, 1)
    IN  /\ Len(after) = Len(cols) + 1
        /\ game = after[Len(cols) + 1]
        /\ RollsBack(game, after, Len(cols))

\* A game of at least seven moves that the last move has just won: the rollback
\* starts from a terminal state and goes back to the empty board.
C35_Witness ==
    /\ last.op = "make_move"
    /\ last.ret
    /\ game.game_over
    /\ game.winner # NONE
    /\ Len(game.move_history) >= 7
    /\ undo_move(undo_move(game).game).ret

\* The number of cells of the board holding p.
Pieces(board, p) ==
    Cardinality({cell \in Rows \X Cols : board[cell[1]][cell[2]] = p})

\* C36: the move log and the grid agree.  The log is as long as the number of
\* non-empty cells, each logged (row, col, mover) names a cell of the board that
\* holds mover, no two entries name the same cell, and the last entry is the
\* topmost piece of its column.
C36_LogAgreesWithGrid ==
    LET log == game.move_history
        n == Len(log)
    IN  /\ n = Pieces(game.board, RED) + Pieces(game.board, YELLOW)
        /\ \A i \in 1 .. n :
               /\ log[i][1] \in Rows
               /\ log[i][2] \in Cols
               /\ log[i][3] \in {RED, YELLOW}
               /\ game.board[log[i][1]][log[i][2]] = log[i][3]
        /\ \A i, j \in 1 .. n :
               i # j => <<log[i][1], log[i][2]>> # <<log[j][1], log[j][2]>>
        /\ n > 0 =>
               /\ log[n][1] \in Rows
               /\ log[n][2] \in Cols
               /\ \A row \in Rows :
                      row < log[n][1] => game.board[row][log[n][2]] = NONE

\* After a successful undo_move, the last logged piece lies on top of another
\* piece, in a column that is not the one of the piece taken back.
C36_Witness ==
    /\ last.op = "undo_move"
    /\ last.ret
    /\ Len(game.move_history) >= 2
    /\ LET e == game.move_history[Len(game.move_history)]
           u == last.pre.move_history[Len(last.pre.move_history)]
       IN  /\ e[1] < ROWS - 1
           /\ e[2] # u[2]

\* C37: RED pieces minus YELLOW pieces is 0 or 1, and while the game is not
\* over RED is to move exactly when the two counts are equal.
C37_PieceCountsAndTurn ==
    LET red == Pieces(game.board, RED)
        yellow == Pieces(game.board, YELLOW)
    IN  /\ red - yellow \in {0, 1}
        /\ ~game.game_over => (game.current_player = RED <=> red = yellow)

\* A successful undo_move has left RED one piece ahead, YELLOW to move.
C37_Witness ==
    /\ last.op = "undo_move"
    /\ last.ret
    /\ ~game.game_over
    /\ Pieces(game.board, RED) = Pieces(game.board, YELLOW) + 1
    /\ game.current_player = YELLOW

\* C34: terminal scores dominate heuristic scores.  Every leaf the search
\* evaluates (depth 0, game not over) gets a value strictly between -1000 and
\* 1000, below a win (1000 + d) and above a loss (-1000 - d).
C34_HeuristicBelowTerminal ==
    [][Evaluating =>
          /\ ~game.game_over
          /\ retval' = _evaluate_position(bot, game)
          /\ -1000 < retval'
          /\ retval' < 1000
      ]_<<game, last.op, last.pre, botvars>>

\* The calls under way are nested with strictly decreasing remaining depth, one
\* less at each level and never below 0, under one call of the helper, and a
\* node that got past its entry has remaining depth at least 1 and was entered
\* on a position of a game that is not over.
DepthsDecrease ==
    \A i \in 1 .. Len(stack) :
        /\ (i = 1) = (stack[i].fn # "minimax")
        /\ stack[i].depth >= 0
        /\ stack[i].depth <= bot.depth
        /\ i > 1 => stack[i].depth = stack[i - 1].depth - 1
        /\ (i > 1 /\ stack[i].pc # "enter")
               => stack[i].depth >= 1 /\ ~stack[i].entry.game_over

\* C31: a call of get_best_move runs to completion, for every configured depth
\* >= 1 and both modes: every recursive call has strictly smaller remaining
\* depth than its caller, the recursion stops at remaining depth 0 or at a
\* terminal position, and the call eventually returns.
C31_SearchRunsToCompletion ==
    /\ [](bot.depth >= 1 => DepthsDecrease)
    /\ (~Idle) ~> Answered

\* An iterative search of depth 3 or more has returned a column, after passes
\* that stored positions in the table.
C31_Witness ==
    /\ Answered
    /\ last.ret # None
    /\ bot.search_type = "iterative"
    /\ bot.depth >= 3
    /\ \E h \in DOMAIN transposition_table : transposition_table[h].depth >= 1

\* The cells in which the boards a and b differ.
ChangedCells(a, b) == {cell \in Rows \X Cols : a[cell[1]][cell[2]] # b[cell[1]][cell[2]]}

\* The request may change the game: its id exists, the game is not over and
\* the bot's player is to move.
BotMayMove(g, game_id) ==
    /\ InGames(game_id, g)
    /\ ~g.game_over
    /\ g.current_player = YELLOW
    /\ bot.player = YELLOW

\* C32: /api/bot_move changes a game only when the game id exists, the game is
\* not over and the side to move is the bot's player (YELLOW): the engine is
\* asked in that case only; in every other case the answer is an error and the
\* grid, the side to move, the terminal flag and the winner are as before; the
\* request succeeds in that case, and then exactly one cell has changed, from
\* empty to the bot's colour, in the column answered.
C32_BotMoveChangesOnlyItsTurn ==
    /\ (~Idle \/ last.op = "get_best_move") => BotMayMove(last.pre, "default")
    /\ last.op = "bot_move" =>
           /\ last.ret.success = BotMayMove(last.pre, last.arg)
           /\ last.ret.success = (last.ret.status = 200)
           /\ ~last.ret.success =>
                  /\ game.board = last.pre.board
                  /\ game.current_player = last.pre.current_player
                  /\ game.game_over = last.pre.game_over
                  /\ game.winner = last.pre.winner
           /\ last.ret.success =>
                  /\ last.ret.col \in Cols
                  /\ Cardinality(ChangedCells(game.board, last.pre.board)) = 1
                  /\ \A cell \in ChangedCells(game.board, last.pre.board) :
                         /\ cell[2] = last.ret.col
                         /\ last.pre.board[cell[1]][cell[2]] = NONE
                         /\ game.board[cell[1]][cell[2]] = YELLOW

\* The bot has moved after a search that filled the table, and the game goes on.
C32_Witness ==
    /\ last.op = "bot_move"
    /\ last.ret.success
    /\ ~game.game_over
    /\ DOMAIN transposition_table # {}

\* The first iteration of the first pass is about to begin: get_best_move has
\* handed over to its helper and nothing has been searched yet.
SearchBegins ==
    /\ Len(stack) = 1
    /\ Top.pc = "loop"
    /\ Top.idx = 1
    /\ Top.fn = "fixed" \/ Top.depth = 1

\* The two games are equal positions: grid, side to move, terminal flag, winner.
SamePosition(g, h) ==
    /\ g.board = h.board
    /\ g.current_player = h.current_player
    /\ g.game_over = h.game_over
    /\ g.winner = h.winner

\* C38: determinism across decisions.  For one engine, a call of get_best_move
\* answers as any earlier call on an equal position did, whatever was searched
\* in between, and nothing of an earlier decision is left when a search begins:
\* the three stores are empty and the candidates are in center-out order.
C38_SameAnswerOnEqualPositions ==
    /\ (Answered /\ SamePosition(last.arg.pre, last.pre)) => last.ret = last.arg.ret
    /\ (~Idle /\ SearchBegins) =>
           /\ StoresEmpty
           /\ Top.ordered_moves = CenterOut({Top.valid_moves[i] : i \in 1 .. Len(Top.valid_moves)})

\* The engine has answered with a column on a position on which an earlier call
\* is kept; the state is reached with that call as the previous one and with
\* calls on other positions in between.
C38_Witness ==
    /\ Answered
    /\ last.arg.pre # NoGame
    /\ SamePosition(last.arg.pre, last.pre)
    /\ last.ret # None
    /\ last.ret = last.arg.ret
    /\ DOMAIN transposition_table # {}

\* The largest and the smallest element of a non-empty set of integers.
Largest(S) == CHOOSE x \in S : \A y \in S : y <= x
Smallest(S) == CHOOSE x \in S : \A y \in S : x <= y

\* The reference search: the value of g at remaining depth depth with the
\* engine's terminal scores, its early termination on a move that wins for the
\* side moving and its leaf evaluation, and with no window, no cutoff and no
\* table.
RECURSIVE Reference(_, _, _, _)
Reference(b, g, depth, maximizing) ==
    IF g.game_over THEN TerminalScore(b, g, depth)
    ELSE IF depth = 0 THEN _evaluate_position(b, g)
    ELSE IF ImmediateWins(g, IF maximizing THEN b.player ELSE b.opponent) # {}
    THEN IF maximizing THEN 1000 + depth ELSE -1000 - depth
    ELSE IF maximizing
    THEN Largest({Reference(b, make_move(g, col).game, depth - 1, FALSE) :
                     col \in {c \in Cols : is_valid_move(g, c)}})
    ELSE Smallest({Reference(b, make_move(g, col).game, depth - 1, TRUE) :
                      col \in {c \in Cols : is_valid_move(g, c)}})

\* What the reference search rates the root move col at.
ReferenceRootValue(b, g, col) ==
    Reference(b, make_move(g, col).game, b.depth - 1, FALSE)

\* A fixed-depth engine has answered on its own turn, from a position without
\* an immediate win.
FixedAnswered ==
    /\ Answered
    /\ last.ret # None
    /\ bot.search_type = "fixed"
    /\ bot.depth >= 1
    /\ ~last.pre.game_over
    /\ last.pre.current_player = bot.player
    /\ ImmediateWins(last.pre, bot.player) = {}

\* C33: in fixed mode, on the searching side's turn and with no immediate root
\* win, the column the engine returns is one the reference search rates as
\* maximal among the legal root moves.
C33_PruningKeepsBestRoot ==
    FixedAnswered =>
        \A col \in {c \in Cols : is_valid_move(last.pre, c)} :
            ReferenceRootValue(bot, last.pre, col)
                <= ReferenceRootValue(bot, last.pre, last.ret)

====
